---- MODULE Spec2Model ----
(***************************************************************************)
(* Model of the DMXP protobuf plugin's schema parser (ProtoParser) and its *)
(* AST builder (AstBuilder).                                               *)
(*                                                                         *)
(* Text is modelled at the character level: a Rust String / &str is a      *)
(* sequence of one-character strings, so that trimming, prefix tests,      *)
(* whitespace splitting, substring search and integer parsing are computed *)
(* the way the code computes them.  Option<T> is a sequence of length 0    *)
(* (None) or 1 (Some).  Vec<T> is a sequence.                              *)
(***************************************************************************)
EXTENDS Integers, Sequences, FiniteSets, TLC

VARIABLES
    lines,          \* ProtoParser.lines: the source, one string per line
    current_line,   \* ProtoParser.current_line (0-based cursor)
    builder,        \* the AstBuilder local to ProtoParser::parse
    stack,          \* the open body loops (the Rust call stack below parse)
    result,         \* "running" while parse executes, then "Ok" or "Err"
    error,          \* the anyhow error parse returned (None unless "Err")
    output,         \* the ProtoFile parse returned (None unless "Ok")
    generated       \* what templateGen::helpers returned for a member of
                    \* the parsed file (None until a target is generated)

vars == <<lines, current_line, builder, stack, result, error, output,
          generated>>

----------------------------------------------------------------------------
(* Option<T> *)

None == <<>>

Some(x) == <<x>>

is_some(o) == o # None

unwrap(o) == o[1]

SetMin(S) == CHOOSE x \in S : \A y \in S : x <= y

----------------------------------------------------------------------------
(* &str primitives of the Rust standard library used by the parser *)

\* char::is_whitespace, over the characters the model's inputs use
Whitespace == {" ", "\t"}

is_whitespace(c) == c \in Whitespace

\* char::is_ascii_digit
is_digit(c) == c \in {"0","1","2","3","4","5","6","7","8","9"}

\* the regex class [A-Za-z_]
IdentStartChars ==
    {"a","b","c","d","e","f","g","h","i","j","k","l","m","n","o","p","q","r",
     "s","t","u","v","w","x","y","z","A","B","C","D","E","F","G","H","I","J",
     "K","L","M","N","O","P","Q","R","S","T","U","V","W","X","Y","Z","_"}

\* the regex class \w
WordChars == IdentStartChars \cup {"0","1","2","3","4","5","6","7","8","9"}

\* s[from..] with a 0-based byte offset
str_from(s, from) == SubSeq(s, from + 1, Len(s))

\* s[..to] with a 0-based exclusive end
str_to(s, to) == SubSeq(s, 1, to)

\* str::trim_start_matches with a character predicate given as a set
trim_start_in(s, C) ==
    LET keep == {i \in 1..Len(s) : s[i] \notin C}
    IN  IF keep = {} THEN <<>> ELSE SubSeq(s, SetMin(keep), Len(s))

\* str::trim_end_matches with a character predicate given as a set
trim_end_in(s, C) ==
    LET keep == {i \in 1..Len(s) : s[i] \notin C}
    IN  IF keep = {} THEN <<>>
        ELSE SubSeq(s, 1, CHOOSE i \in keep : \A j \in keep : j <= i)

trim_start(s) == trim_start_in(s, Whitespace)

trim_end(s) == trim_end_in(s, Whitespace)

trim(s) == trim_end(trim_start(s))

trim_end_matches(s, c) == trim_end_in(s, {c})

trim_matches(s, c) == trim_end_in(trim_start_in(s, {c}), {c})

starts_with(s, p) == Len(s) >= Len(p) /\ SubSeq(s, 1, Len(p)) = p

ends_with(s, p) ==
    Len(s) >= Len(p) /\ SubSeq(s, Len(s) - Len(p) + 1, Len(s)) = p

\* str::find: the 0-based offset of the first occurrence, or None
find(s, p) ==
    LET at == {i \in 1..(Len(s) - Len(p) + 1) : SubSeq(s, i, i + Len(p) - 1) = p}
    IN  IF at = {} THEN None ELSE Some(SetMin(at) - 1)

contains(s, p) == is_some(find(s, p))

\* str::matches(c).count()
matches_count(s, c) == Cardinality({i \in 1..Len(s) : s[i] = c})

strip_prefix(s, p) ==
    IF starts_with(s, p) THEN Some(str_from(s, Len(p))) ELSE None

strip_suffix(s, p) ==
    IF ends_with(s, p) THEN Some(str_to(s, Len(s) - Len(p))) ELSE None

\* str::split_whitespace().collect::<Vec<_>>()
RECURSIVE split_whitespace(_)
split_whitespace(s) ==
    LET t == trim_start(s)
        ws == {i \in 1..Len(t) : is_whitespace(t[i])}
        e == IF ws = {} THEN Len(t) + 1 ELSE SetMin(ws)
    IN  IF t = <<>> THEN <<>>
        ELSE <<SubSeq(t, 1, e - 1)>> \o split_whitespace(SubSeq(t, e, Len(t)))

\* str::split(c).collect::<Vec<_>>()
RECURSIVE split_char(_, _)
split_char(s, c) ==
    LET at == {i \in 1..Len(s) : s[i] = c}
    IN  IF at = {} THEN <<s>>
        ELSE <<SubSeq(s, 1, SetMin(at) - 1)>>
             \o split_char(SubSeq(s, SetMin(at) + 1, Len(s)), c)

----------------------------------------------------------------------------
(* str::parse for the integer and boolean types the parser asks for *)

I32Max == 2147483647

digit_value(c) ==
    CASE c = "0" -> 0 [] c = "1" -> 1 [] c = "2" -> 2 [] c = "3" -> 3
      [] c = "4" -> 4 [] c = "5" -> 5 [] c = "6" -> 6 [] c = "7" -> 7
      [] c = "8" -> 8 [] c = "9" -> 9

\* the checked accumulation of core::num::from_str_radix for a positive
\* i32: checked_mul(10) then checked_add(digit); None on overflow
RECURSIVE checked_add_digits(_, _)
checked_add_digits(ds, acc) ==
    IF ds = <<>> THEN Some(acc)
    ELSE LET d == digit_value(Head(ds))
         IN  IF acc > (I32Max - d) \div 10 THEN None
             ELSE checked_add_digits(Tail(ds), acc * 10 + d)

\* the same for a negative i32: checked_mul(10) then checked_sub(digit),
\* against i32::MIN = -I32Max - 1
RECURSIVE checked_sub_digits(_, _)
checked_sub_digits(ds, acc) ==
    LET d == digit_value(Head(ds))
        min == (0 - I32Max) - 1
    IN  IF ds = <<>> THEN Some(acc)
        ELSE IF acc < (min + d + 9) \div 10 THEN None
        ELSE checked_sub_digits(Tail(ds), acc * 10 - d)

\* <i32 as FromStr>::from_str: an optional sign, then one or more digits,
\* the value within i32
parse_i32(s) ==
    LET signed == s # <<>> /\ Head(s) \in {"+", "-"}
        neg == s # <<>> /\ Head(s) = "-"
        ds == IF signed THEN Tail(s) ELSE s
    IN  IF ds = <<>> \/ \E i \in 1..Len(ds) : ~is_digit(ds[i]) THEN None
        ELSE IF neg THEN checked_sub_digits(ds, 0)
        ELSE checked_add_digits(ds, 0)

\* u32::MAX, as its decimal digits (it exceeds the model checker's integers)
U32MaxDigits == <<"4","2","9","4","9","6","7","2","9","5">>

\* a <= b for two digit strings of the same length
RECURSIVE digits_leq(_, _)
digits_leq(a, b) ==
    IF a = <<>> THEN TRUE
    ELSE IF digit_value(Head(a)) < digit_value(Head(b)) THEN TRUE
    ELSE IF digit_value(Head(a)) > digit_value(Head(b)) THEN FALSE
    ELSE digits_leq(Tail(a), Tail(b))

\* <u32 as FromStr>::from_str: an optional '+', then one or more digits, the
\* value within u32.  The value is kept as its canonical decimal digits.
parse_u32(s) ==
    LET ds == IF s # <<>> /\ Head(s) = "+" THEN Tail(s) ELSE s
        nz == trim_start_in(ds, {"0"})
        canon == IF nz = <<>> THEN <<"0">> ELSE nz
    IN  IF ds = <<>> \/ \E i \in 1..Len(ds) : ~is_digit(ds[i]) THEN None
        ELSE IF Len(canon) > Len(U32MaxDigits) THEN None
        ELSE IF Len(canon) = Len(U32MaxDigits) /\ ~digits_leq(canon, U32MaxDigits)
             THEN None
        ELSE Some(canon)

\* <bool as FromStr>::from_str
parse_bool(s) ==
    IF s = <<"t","r","u","e">> THEN Some(TRUE)
    ELSE IF s = <<"f","a","l","s","e">> THEN Some(FALSE)
    ELSE None

----------------------------------------------------------------------------
(* Lexical helpers of src/parser/mod.rs *)

\* the value text between the first '=' of `rest` and the next ';'
\* (or the end), trimmed and with surrounding quotes removed; None if no '='
value_after_eq(rest) ==
    LET eq_pos == find(rest, <<"=">>)
        after == str_from(rest, unwrap(eq_pos) + 1)
        semi == find(after, <<";">>)
        value_part == IF is_some(semi) THEN str_to(after, unwrap(semi)) ELSE after
    IN  IF is_some(eq_pos) THEN Some(trim_matches(trim(value_part), "\""))
        ELSE None

\* mutant: only the parenthesised spelling is recognised
extract_string_value_ParenOnly(l, key) ==
    LET paren == find(l, <<"(">> \o key \o <<")">>)
        rest0 == trim_start(str_from(l, unwrap(paren) + Len(key) + 2))
        rest1 == IF starts_with(rest0, <<")">>)
                 THEN trim_start(str_from(rest0, 1)) ELSE rest0
    IN  IF is_some(paren) THEN value_after_eq(rest1) ELSE None

extract_string_value(line, key) ==
    LET paren == find(line, <<"(">> \o key \o <<")">>)
        rest0 == trim_start(str_from(line, unwrap(paren) + Len(key) + 2))
        rest1 == IF starts_with(rest0, <<")">>)
                 THEN trim_start(str_from(rest0, 1)) ELSE rest0
        first == IF is_some(paren) THEN value_after_eq(rest1) ELSE None
        bare == find(line, key)
        rest2 == trim_start(str_from(line, unwrap(bare) + Len(key)))
    IN  IF is_some(first) THEN first
        ELSE IF is_some(bare) THEN value_after_eq(rest2)
        ELSE None

extract_bool_value(line, key) ==
    LET s == extract_string_value(line, key)
    IN  IF is_some(s) THEN parse_bool(unwrap(s)) ELSE None

\* extract_number_value::<u32>
extract_number_value(line, key) ==
    LET s == extract_string_value(line, key)
    IN  IF is_some(s) THEN parse_u32(unwrap(s)) ELSE None

is_field_line(line) ==
    LET parts == split_whitespace(line)
    IN  /\ Len(parts) >= 3
        /\ ~starts_with(line, <<"m","e","s","s","a","g","e">>)
        /\ ~starts_with(line, <<"s","e","r","v","i","c","e">>)
        /\ ~starts_with(line, <<"e","n","u","m">>)
        /\ ~starts_with(line, <<"o","p","t","i","o","n">>)
        /\ ~starts_with(line, <<"r","p","c">>)
        /\ \/ contains(parts[3], <<"=">>)
           \/ (Len(parts) > 3 /\ contains(parts[4], <<"=">>))

----------------------------------------------------------------------------
(* AstBuilder (src/ast/ast.rs) as operators from a builder value to the     *)
(* builder value after the call                                             *)

AstBuilder_new ==
    [ current_file |->
        [ syntax |-> <<"p","r","o","t","o","3">>,
          package |-> <<>>,
          options |-> <<>>,
          messages |-> <<>>,
          services |-> <<>>,
          enums |-> <<>>,
          extensions |-> <<>>,
          dmxp_channels |-> <<>> ],
      current_message |-> None,
      current_service |-> None,
      current_enum |-> None ]

set_syntax(b, syntax) == [b EXCEPT !.current_file.syntax = syntax]

set_package(b, package) == [b EXCEPT !.current_file.package = package]

\* Option::take on current_message followed by the push of the taken message:
\* after take() the slot is None, so the parent test reads the emptied slot
commit_message(b) ==
    LET message == unwrap(b.current_message)
        taken == [b EXCEPT !.current_message = None]
    IN  IF is_some(taken.current_message)
        THEN [taken EXCEPT !.current_message =
                 Some([unwrap(@) EXCEPT !.nested_messages = Append(@, message)])]
        ELSE [taken EXCEPT !.current_file.messages = Append(@, message)]

\* mutant: a message still open when another starts is dropped
start_message_DropsOpen(b, name) ==
    [b EXCEPT !.current_message =
        Some([ name |-> name,
               fields |-> <<>>,
               nested_messages |-> <<>>,
               nested_enums |-> <<>>,
               options |-> <<>>,
               dmxp_options |-> None ])]

start_message(b, name) ==
    LET b1 == IF is_some(b.current_message) THEN commit_message(b) ELSE b
    IN  [b1 EXCEPT !.current_message =
            Some([ name |-> name,
                   fields |-> <<>>,
                   nested_messages |-> <<>>,
                   nested_enums |-> <<>>,
                   options |-> <<>>,
                   dmxp_options |-> None ])]

end_message(b) ==
    IF is_some(b.current_message) THEN commit_message(b) ELSE b

\* mutant: with no message open the field goes to the message committed last
add_field_ToLastMessage(b, field) ==
    IF is_some(b.current_message)
    THEN [b EXCEPT !.current_message =
             Some([unwrap(@) EXCEPT !.fields = Append(@, field)])]
    ELSE IF b.current_file.messages # <<>>
    THEN [b EXCEPT !.current_file.messages[Len(b.current_file.messages)].fields =
             Append(@, field)]
    ELSE b

add_field(b, field) ==
    IF is_some(b.current_message)
    THEN [b EXCEPT !.current_message =
             Some([unwrap(@) EXCEPT !.fields = Append(@, field)])]
    ELSE b

add_message_option(b, option) ==
    IF is_some(b.current_message)
    THEN [b EXCEPT !.current_message =
             Some([unwrap(@) EXCEPT !.options = Append(@, option)])]
    ELSE b

set_dmxp_message_options(b, options) ==
    IF is_some(b.current_message)
    THEN [b EXCEPT !.current_message =
             Some([unwrap(@) EXCEPT !.dmxp_options = Some(options)])]
    ELSE b

get_dmxp_message_options(b) ==
    IF is_some(b.current_message)
    THEN unwrap(b.current_message).dmxp_options
    ELSE None

start_service(b, name) ==
    [b EXCEPT !.current_service =
        Some([ name |-> name,
               methods |-> <<>>,
               options |-> <<>>,
               dmxp_options |-> None ])]

end_service(b) ==
    IF is_some(b.current_service)
    THEN [b EXCEPT !.current_service = None,
                   !.current_file.services = Append(@, unwrap(b.current_service))]
    ELSE b

\* mutant: a method is put in front of the methods read before it
add_method_Prepends(b, method) ==
    IF is_some(b.current_service)
    THEN [b EXCEPT !.current_service =
             Some([unwrap(@) EXCEPT !.methods = <<method>> \o @])]
    ELSE b

add_method(b, method) ==
    IF is_some(b.current_service)
    THEN [b EXCEPT !.current_service =
             Some([unwrap(@) EXCEPT !.methods = Append(@, method)])]
    ELSE b

add_service_option(b, option) ==
    IF is_some(b.current_service)
    THEN [b EXCEPT !.current_service =
             Some([unwrap(@) EXCEPT !.options = Append(@, option)])]
    ELSE b

set_dmxp_service_options(b, options) ==
    IF is_some(b.current_service)
    THEN [b EXCEPT !.current_service =
             Some([unwrap(@) EXCEPT !.dmxp_options = Some(options)])]
    ELSE b

\* Option::take on current_enum followed by the push of the taken enum
commit_enum(b) ==
    LET enum_def == unwrap(b.current_enum)
        taken == [b EXCEPT !.current_enum = None]
    IN  IF is_some(taken.current_message)
        THEN [taken EXCEPT !.current_message =
                 Some([unwrap(@) EXCEPT !.nested_enums = Append(@, enum_def)])]
        ELSE [taken EXCEPT !.current_file.enums = Append(@, enum_def)]

start_enum(b, name) ==
    LET b1 == IF is_some(b.current_enum) THEN commit_enum(b) ELSE b
    IN  [b1 EXCEPT !.current_enum =
            Some([ name |-> name, values |-> <<>>, options |-> <<>> ])]

end_enum(b) ==
    IF is_some(b.current_enum) THEN commit_enum(b) ELSE b

add_enum_value(b, value) ==
    IF is_some(b.current_enum)
    THEN [b EXCEPT !.current_enum =
             Some([unwrap(@) EXCEPT !.values = Append(@, value)])]
    ELSE b

build(b) == b.current_file

----------------------------------------------------------------------------
(* ProtoParser (src/parser/parser.rs): the line handlers that do not recurse, *)
(* as operators from the builder and the trimmed line to the outcome         *)

\* Result<()>: Ok(()) with the builder as the handler left it, or Err(e)
Ok(b) == [ok |-> TRUE, builder |-> b, error |-> None]

Err(msg, arg) ==
    [ok |-> FALSE, builder |-> None, error |-> Some([msg |-> msg, arg |-> arg])]

parse_syntax(b, line) ==
    LET rest == trim_start(trim_start_in(
                    unwrap(strip_prefix(line, <<"s","y","n","t","a","x">>)),
                    Whitespace \cup {"="}))
        syntax == trim_matches(trim(trim_end_matches(rest, ";")), "\"")
    IN  IF syntax # <<>> THEN set_syntax(b, syntax) ELSE b

parse_package(b, line) ==
    LET rest == strip_prefix(line, <<"p","a","c","k","a","g","e">>)
        package == IF is_some(rest) THEN strip_suffix(unwrap(rest), <<";">>)
                   ELSE None
    IN  IF is_some(package) THEN set_package(b, trim(unwrap(package))) ELSE b

\* the declared name of a `message `, `service ` or `enum ` line:
\* strip_prefix(keyword).and_then(|s| s.split_whitespace().next()), then
\* trim_end_matches('{')
block_name(line, keyword) ==
    LET rest == strip_prefix(line, keyword)
        toks == split_whitespace(unwrap(rest))
    IN  IF is_some(rest) /\ toks # <<>>
        THEN Some(trim_end_matches(toks[1], "{"))
        ELSE None

DmxpMessageOptions_none ==
    [ channel |-> None, persistent |-> None, buffer_size |-> None,
      wal_enabled |-> None, swap_enabled |-> None, priority |-> None ]

\* the value extracted for `key`, kept in `old` when nothing is extracted
set_if_some(old, extracted) == IF is_some(extracted) THEN extracted ELSE old

\* mutant: every option line starts from an empty binding
parse_message_option_Replaces(b, l) ==
    LET existing == get_dmxp_message_options(b)
        o == DmxpMessageOptions_none
        has(key) == contains(l, key)
        KChannel == <<"d","m","x","p","_","c","h","a","n","n","e","l">>
        KPersistent == <<"d","m","x","p","_","p","e","r","s","i","s","t","e","n","t">>
        KBufferSize == <<"d","m","x","p","_","b","u","f","f","e","r","_","s","i","z","e">>
        KWalEnabled == <<"d","m","x","p","_","w","a","l","_","e","n","a","b","l","e","d">>
        KSwapEnabled == <<"d","m","x","p","_","s","w","a","p","_","e","n","a","b","l","e","d">>
        KPriority == <<"d","m","x","p","_","p","r","i","o","r","i","t","y">>
        updated ==
            IF has(KChannel)
            THEN [o EXCEPT !.channel =
                     set_if_some(@, extract_string_value(l, KChannel))]
            ELSE IF has(KPersistent)
            THEN [o EXCEPT !.persistent =
                     set_if_some(@, extract_bool_value(l, KPersistent))]
            ELSE IF has(KBufferSize)
            THEN [o EXCEPT !.buffer_size =
                     set_if_some(@, extract_number_value(l, KBufferSize))]
            ELSE IF has(KWalEnabled)
            THEN [o EXCEPT !.wal_enabled =
                     set_if_some(@, extract_bool_value(l, KWalEnabled))]
            ELSE IF has(KSwapEnabled)
            THEN [o EXCEPT !.swap_enabled =
                     set_if_some(@, extract_bool_value(l, KSwapEnabled))]
            ELSE IF has(KPriority)
            THEN [o EXCEPT !.priority =
                     set_if_some(@, extract_number_value(l, KPriority))]
            ELSE o
    IN  IF contains(l, <<"d","m","x","p","_">>)
        THEN set_dmxp_message_options(b, updated)
        ELSE b

parse_message_option(b, line) ==
    LET existing == get_dmxp_message_options(b)
        o == IF is_some(existing) THEN unwrap(existing)
             ELSE DmxpMessageOptions_none
        has(key) == contains(line, key)
        KChannel == <<"d","m","x","p","_","c","h","a","n","n","e","l">>
        KPersistent == <<"d","m","x","p","_","p","e","r","s","i","s","t","e","n","t">>
        KBufferSize == <<"d","m","x","p","_","b","u","f","f","e","r","_","s","i","z","e">>
        KWalEnabled == <<"d","m","x","p","_","w","a","l","_","e","n","a","b","l","e","d">>
        KSwapEnabled == <<"d","m","x","p","_","s","w","a","p","_","e","n","a","b","l","e","d">>
        KPriority == <<"d","m","x","p","_","p","r","i","o","r","i","t","y">>
        updated ==
            IF has(KChannel)
            THEN [o EXCEPT !.channel =
                     set_if_some(@, extract_string_value(line, KChannel))]
            ELSE IF has(KPersistent)
            THEN [o EXCEPT !.persistent =
                     set_if_some(@, extract_bool_value(line, KPersistent))]
            ELSE IF has(KBufferSize)
            THEN [o EXCEPT !.buffer_size =
                     set_if_some(@, extract_number_value(line, KBufferSize))]
            ELSE IF has(KWalEnabled)
            THEN [o EXCEPT !.wal_enabled =
                     set_if_some(@, extract_bool_value(line, KWalEnabled))]
            ELSE IF has(KSwapEnabled)
            THEN [o EXCEPT !.swap_enabled =
                     set_if_some(@, extract_bool_value(line, KSwapEnabled))]
            ELSE IF has(KPriority)
            THEN [o EXCEPT !.priority =
                     set_if_some(@, extract_number_value(line, KPriority))]
            ELSE o
    IN  IF contains(line, <<"d","m","x","p","_">>)
        THEN set_dmxp_message_options(b, updated)
        ELSE b

\* FieldType: a scalar variant, or Message(name)
parse_field_type(type_str) ==
    LET scalar(tag) == [tag |-> tag, name |-> <<>>]
    IN  CASE type_str = <<"d","o","u","b","l","e">> -> scalar("Double")
          [] type_str = <<"f","l","o","a","t">> -> scalar("Float")
          [] type_str = <<"i","n","t","3","2">> -> scalar("Int32")
          [] type_str = <<"i","n","t","6","4">> -> scalar("Int64")
          [] type_str = <<"u","i","n","t","3","2">> -> scalar("Uint32")
          [] type_str = <<"u","i","n","t","6","4">> -> scalar("Uint64")
          [] type_str = <<"s","i","n","t","3","2">> -> scalar("Sint32")
          [] type_str = <<"s","i","n","t","6","4">> -> scalar("Sint64")
          [] type_str = <<"f","i","x","e","d","3","2">> -> scalar("Fixed32")
          [] type_str = <<"f","i","x","e","d","6","4">> -> scalar("Fixed64")
          [] type_str = <<"s","f","i","x","e","d","3","2">> -> scalar("Sfixed32")
          [] type_str = <<"s","f","i","x","e","d","6","4">> -> scalar("Sfixed64")
          [] type_str = <<"b","o","o","l">> -> scalar("Bool")
          [] type_str = <<"s","t","r","i","n","g">> -> scalar("String")
          [] type_str = <<"b","y","t","e","s">> -> scalar("Bytes")
          [] OTHER -> [tag |-> "Message", name |-> type_str]

\* mutant: a field line with too few tokens is skipped, not rejected
parse_field_SkipsShort(b, l) ==
    LET parts == split_whitespace(l)
        repeated == parts[1] = <<"r","e","p","e","a","t","e","d">>
        number_token == IF repeated THEN parts[5] ELSE parts[4]
        number_str == trim_end_matches(number_token, ";")
        number == parse_i32(number_str)
        field == [ name |-> IF repeated THEN parts[3] ELSE parts[2],
                   field_type |->
                       parse_field_type(IF repeated THEN parts[2] ELSE parts[1]),
                   number |-> unwrap(number),
                   label |-> IF repeated THEN "Repeated" ELSE "Optional",
                   options |-> <<>>,
                   default_value |-> None ]
    IN  IF Len(parts) < (IF repeated THEN 5 ELSE 4) THEN Ok(b)
        ELSE IF number_str = <<>>
        THEN Err("Empty field number in line: {}", l)
        ELSE IF number = None
        THEN Err("Invalid field number '{}': {}", number_str)
        ELSE Ok(add_field(b, field))

parse_field(b, line) ==
    LET parts == split_whitespace(line)
        repeated == parts[1] = <<"r","e","p","e","a","t","e","d">>
        label == IF repeated THEN "Repeated" ELSE "Optional"
        field_type_token == IF repeated THEN parts[2] ELSE parts[1]
        name_token == IF repeated THEN parts[3] ELSE parts[2]
        number_token == IF repeated THEN parts[5] ELSE parts[4]
        number_str == trim_end_matches(number_token, ";")
        number == parse_i32(number_str)
        field == [ name |-> name_token,
                   field_type |-> parse_field_type(field_type_token),
                   number |-> unwrap(number),
                   label |-> label,
                   options |-> <<>>,
                   default_value |-> None ]
    IN  IF Len(parts) < 3 THEN Ok(b)
        ELSE IF repeated /\ Len(parts) < 5
        THEN Err("Malformed repeated field: {}", line)
        ELSE IF ~repeated /\ Len(parts) < 4
        THEN Err("Malformed field: {}", line)
        ELSE IF number_str = <<>>
        THEN Err("Empty field number in line: {}", line)
        ELSE IF number = None
        THEN Err("Invalid field number '{}': {}", number_str)
        ELSE Ok(add_field(b, field))

DmxpServiceOptions_empty ==
    [ channels |-> <<>>, timeout_ms |-> None, retry_count |-> None ]

\* builder.current_service.as_ref().and_then(|s| s.dmxp_options.clone())
\*     .unwrap_or_else(|| DmxpServiceOptions { .. })
existing_service_options(b) ==
    IF is_some(b.current_service)
       /\ is_some(unwrap(b.current_service).dmxp_options)
    THEN unwrap(unwrap(b.current_service).dmxp_options)
    ELSE DmxpServiceOptions_empty

\* mutant: a channels line replaces the list with its one channel
parse_service_option_Overwrites(b, l) ==
    LET KChannels == <<"d","m","x","p","_","c","h","a","n","n","e","l","s">>
        KTimeoutMs == <<"d","m","x","p","_","t","i","m","e","o","u","t","_","m","s">>
        KRetryCount == <<"d","m","x","p","_","r","e","t","r","y","_","c","o","u","n","t">>
        channel_name == extract_string_value(l, KChannels)
        b1 == IF contains(l, KChannels) /\ is_some(channel_name)
              THEN set_dmxp_service_options(b,
                       [existing_service_options(b) EXCEPT
                            !.channels = <<unwrap(channel_name)>>])
              ELSE b
        timeout_str == extract_string_value(l, KTimeoutMs)
        timeout_ms == IF is_some(timeout_str) THEN parse_u32(unwrap(timeout_str))
                      ELSE None
        b2 == IF contains(l, KTimeoutMs) /\ is_some(timeout_ms)
              THEN set_dmxp_service_options(b1,
                       [existing_service_options(b1) EXCEPT
                            !.timeout_ms = timeout_ms])
              ELSE b1
        retry_str == extract_string_value(l, KRetryCount)
        retry_count == IF is_some(retry_str) THEN parse_u32(unwrap(retry_str))
                       ELSE None
        b3 == IF contains(l, KRetryCount) /\ is_some(retry_count)
              THEN set_dmxp_service_options(b2,
                       [existing_service_options(b2) EXCEPT
                            !.retry_count = retry_count])
              ELSE b2
    IN  b3

parse_service_option(b, line) ==
    LET KChannels == <<"d","m","x","p","_","c","h","a","n","n","e","l","s">>
        KTimeoutMs == <<"d","m","x","p","_","t","i","m","e","o","u","t","_","m","s">>
        KRetryCount == <<"d","m","x","p","_","r","e","t","r","y","_","c","o","u","n","t">>
        channel_name == extract_string_value(line, KChannels)
        b1 == IF contains(line, KChannels) /\ is_some(channel_name)
              THEN set_dmxp_service_options(b,
                       [existing_service_options(b) EXCEPT
                            !.channels = Append(@, unwrap(channel_name))])
              ELSE b
        timeout_str == extract_string_value(line, KTimeoutMs)
        timeout_ms == IF is_some(timeout_str) THEN parse_u32(unwrap(timeout_str))
                      ELSE None
        b2 == IF contains(line, KTimeoutMs) /\ is_some(timeout_ms)
              THEN set_dmxp_service_options(b1,
                       [existing_service_options(b1) EXCEPT
                            !.timeout_ms = timeout_ms])
              ELSE b1
        retry_str == extract_string_value(line, KRetryCount)
        retry_count == IF is_some(retry_str) THEN parse_u32(unwrap(retry_str))
                       ELSE None
        b3 == IF contains(line, KRetryCount) /\ is_some(retry_count)
              THEN set_dmxp_service_options(b2,
                       [existing_service_options(b2) EXCEPT
                            !.retry_count = retry_count])
              ELSE b2
    IN  b3

\* the first position >= i (1-based) of s whose character is not in C,
\* or Len(s) + 1: the end of a greedy run of C starting at i
scan(s, i, C) ==
    LET stop == {j \in i..Len(s) : s[j] \notin C}
    IN  IF stop = {} THEN Len(s) + 1 ELSE SetMin(stop)

\* Regex captures of
\*   ^rpc\s+([A-Za-z_]\w*)\s*\(\s*([A-Za-z_]\w*)\s*\)\s*returns\s*\(\s*([A-Za-z_]\w*)\s*\)
\* on `line`: Some(<<name, input, output>>) or None.  Every repetition is
\* followed by a character outside its class, so the greedy run is the match.
rpc_captures(line) ==
    LET at(i, c) == i <= Len(line) /\ line[i] = c
        ident_at(i) == i <= Len(line) /\ line[i] \in IdentStartChars
        n1 == scan(line, 4, Whitespace)
        e1 == scan(line, n1, WordChars)
        p1 == scan(line, e1, Whitespace)
        n2 == scan(line, p1 + 1, Whitespace)
        e2 == scan(line, n2, WordChars)
        p2 == scan(line, e2, Whitespace)
        r == scan(line, p2 + 1, Whitespace)
        p3 == scan(line, r + 7, Whitespace)
        n3 == scan(line, p3 + 1, Whitespace)
        e3 == scan(line, n3, WordChars)
        p4 == scan(line, e3, Whitespace)
    IN  IF /\ starts_with(line, <<"r","p","c">>)
           /\ n1 > 4
           /\ ident_at(n1)
           /\ at(p1, "(")
           /\ ident_at(n2)
           /\ at(p2, ")")
           /\ starts_with(str_from(line, r - 1), <<"r","e","t","u","r","n","s">>)
           /\ at(p3, "(")
           /\ ident_at(n3)
           /\ at(p4, ")")
        THEN Some(<<SubSeq(line, n1, e1 - 1), SubSeq(line, n2, e2 - 1),
                    SubSeq(line, n3, e3 - 1)>>)
        ELSE None

parse_method(b, trimmed) ==
    LET idx == find(trimmed, <<"/","/">>)
        truncated == IF is_some(idx) THEN str_to(trimmed, unwrap(idx))
                     ELSE trimmed
        line == trim(trim_end_matches(truncated, ";"))
        caps == rpc_captures(line)
        method == [ name |-> unwrap(caps)[1],
                    input_type |-> unwrap(caps)[2],
                    output_type |-> unwrap(caps)[3],
                    options |-> <<>>,
                    dmxp_options |-> None ]
    IN  IF ~starts_with(line, <<"r","p","c"," ">>) THEN Ok(b)
        ELSE IF is_some(caps) THEN Ok(add_method(b, method))
        ELSE Err("Invalid RPC syntax: {}", line)

\* mutant: the value name keeps the blank that stood before the '='
parse_enum_value_Untrimmed(b, l) ==
    LET parts == split_char(l, "=")
        number == parse_i32(trim(trim_end_matches(parts[2], ";")))
        enum_value == [ name |-> parts[1], number |-> unwrap(number),
                        options |-> <<>> ]
    IN  IF Len(parts) # 2 THEN Ok(b)
        ELSE IF number = None THEN Err("ParseIntError", <<>>)
        ELSE Ok(add_enum_value(b, enum_value))

parse_enum_value(b, line) ==
    LET parts == split_char(line, "=")
        name == trim(parts[1])
        number == parse_i32(trim(trim_end_matches(parts[2], ";")))
        enum_value == [ name |-> name, number |-> unwrap(number),
                        options |-> <<>> ]
    IN  IF Len(parts) # 2 THEN Ok(b)
        ELSE IF number = None THEN Err("ParseIntError", <<>>)
        ELSE Ok(add_enum_value(b, enum_value))

----------------------------------------------------------------------------
(* ProtoParser::parse and the three body loops, one action per loop         *)
(* iteration.  `stack` holds one frame per body loop that is executing;     *)
(* the top-level loop of parse runs when it is empty.                       *)

\* self.lines[self.current_line].trim()
line == trim(lines[current_line + 1])

has_line == current_line < Len(lines)

frame == stack[Len(stack)]

pop == SubSeq(stack, 1, Len(stack) - 1)

at_top == result = "running" /\ stack = <<>>

in_body(kind) == result = "running" /\ stack # <<>> /\ frame.body = kind

\* `self.current_line += 1` with nothing else changed
next_line ==
    /\ current_line' = current_line + 1
    /\ UNCHANGED <<lines, builder, stack, result, error, output, generated>>

\* the handler left the builder as b; the loop then does current_line += 1
continue_with(b) ==
    /\ builder' = b
    /\ current_line' = current_line + 1
    /\ UNCHANGED <<lines, stack, result, error, output, generated>>

\* an Err propagated by `?` through every caller up to parse's caller; the
\* builder, a local of parse, is dropped with the tree it holds
\* mutant: the error is returned together with the tree built so far
fail_KeepsTree(e) ==
    /\ result' = "Err"
    /\ error' = e
    /\ output' = Some(build(builder))
    /\ UNCHANGED <<lines, current_line, builder, stack, generated>>

fail(e) ==
    /\ result' = "Err"
    /\ error' = e
    /\ output' = None
    /\ UNCHANGED <<lines, current_line, builder, stack, generated>>

\* Ok or Err of a handler that returns Result<()>
finish_handler(r) == IF r.ok THEN continue_with(r.builder) ELSE fail(r.error)

\* the body loop on top of the stack returned Ok(()): its caller closes the
\* frame with end_* and ends its own iteration with current_line += 1
return_ok(ended) ==
    /\ builder' = ended
    /\ stack' = pop
    /\ current_line' = current_line + 1
    /\ UNCHANGED <<lines, result, error, output, generated>>

\* a parse_* block function up to the first iteration of its body loop:
\* start_* on the builder, then the body's `self.current_line += 1`
enter_body(name, started, new_frame) ==
    IF is_some(name)
    THEN /\ builder' = started
         /\ stack' = Append(stack, new_frame)
         /\ current_line' = current_line + 1
         /\ UNCHANGED <<lines, result, error, output, generated>>
    ELSE next_line

parse_message ==
    LET name == block_name(line, <<"m","e","s","s","a","g","e"," ">>)
    IN  enter_body(name, start_message(builder, unwrap(name)),
                   [body |-> "message"])

parse_service ==
    LET name == block_name(line, <<"s","e","r","v","i","c","e"," ">>)
    IN  enter_body(name, start_service(builder, unwrap(name)),
                   [body |-> "service", brace_count |-> 1])

parse_enum ==
    LET name == block_name(line, <<"e","n","u","m"," ">>)
    IN  enter_body(name, start_enum(builder, unwrap(name)),
                   [body |-> "enum", brace_count |-> 1])

(* the top-level loop of parse *)

top_is_syntax == starts_with(line, <<"s","y","n","t","a","x">>)

top_is_package ==
    ~top_is_syntax /\ starts_with(line, <<"p","a","c","k","a","g","e">>)

top_is_message ==
    /\ ~top_is_syntax
    /\ ~top_is_package
    /\ starts_with(line, <<"m","e","s","s","a","g","e"," ">>)

top_is_service ==
    /\ ~top_is_syntax
    /\ ~top_is_package
    /\ ~top_is_message
    /\ starts_with(line, <<"s","e","r","v","i","c","e"," ">>)

top_is_enum ==
    /\ ~top_is_syntax
    /\ ~top_is_package
    /\ ~top_is_message
    /\ ~top_is_service
    /\ starts_with(line, <<"e","n","u","m"," ">>)

parse_Done ==
    /\ at_top
    /\ ~has_line
    /\ result' = "Ok"
    /\ output' = Some(build(builder))
    /\ UNCHANGED <<lines, current_line, builder, stack, error, generated>>

parse_Empty == at_top /\ has_line /\ line = <<>> /\ next_line

parse_Syntax ==
    /\ at_top /\ has_line /\ line # <<>>
    /\ top_is_syntax
    /\ continue_with(parse_syntax(builder, line))

parse_Package ==
    /\ at_top /\ has_line /\ line # <<>>
    /\ top_is_package
    /\ continue_with(parse_package(builder, line))

parse_Message ==
    /\ at_top /\ has_line /\ line # <<>>
    /\ top_is_message
    /\ parse_message

parse_Service ==
    /\ at_top /\ has_line /\ line # <<>>
    /\ top_is_service
    /\ parse_service

parse_Enum ==
    /\ at_top /\ has_line /\ line # <<>>
    /\ top_is_enum
    /\ parse_enum

\* mutant: a top-level line that opens no known construct is an error
parse_Other_Rejects ==
    /\ at_top /\ has_line /\ line # <<>>
    /\ ~top_is_syntax
    /\ ~top_is_package
    /\ ~top_is_message
    /\ ~top_is_service
    /\ ~top_is_enum
    /\ fail(Some([msg |-> "Unexpected line: {}", arg |-> line]))

parse_Other ==
    /\ at_top /\ has_line /\ line # <<>>
    /\ ~top_is_syntax
    /\ ~top_is_package
    /\ ~top_is_message
    /\ ~top_is_service
    /\ ~top_is_enum
    /\ next_line

(* the loop of parse_message_body *)

body_is_message == starts_with(line, <<"m","e","s","s","a","g","e"," ">>)

body_is_enum == ~body_is_message /\ starts_with(line, <<"e","n","u","m"," ">>)

body_is_option ==
    /\ ~body_is_message
    /\ ~body_is_enum
    /\ starts_with(line, <<"o","p","t","i","o","n"," ">>)

body_is_field ==
    /\ ~body_is_message
    /\ ~body_is_enum
    /\ ~body_is_option
    /\ is_field_line(line)

in_message_line ==
    in_body("message") /\ has_line /\ line # <<>> /\ line # <<"}">>

\* mutant: end of input ends a message body the way it ends a service body
parse_message_body_Eof_ReturnsOk ==
    /\ in_body("message")
    /\ ~has_line
    /\ return_ok(end_message(builder))

parse_message_body_Eof ==
    /\ in_body("message")
    /\ ~has_line
    /\ fail(Some([msg |-> "Unexpected end of file while parsing message",
                  arg |-> <<>>]))

parse_message_body_Empty ==
    in_body("message") /\ has_line /\ line = <<>> /\ next_line

parse_message_body_Close ==
    /\ in_body("message") /\ has_line
    /\ line = <<"}">>
    /\ return_ok(end_message(builder))

parse_message_body_Message == in_message_line /\ body_is_message /\ parse_message

parse_message_body_Enum == in_message_line /\ body_is_enum /\ parse_enum

parse_message_body_Option ==
    /\ in_message_line
    /\ body_is_option
    /\ continue_with(parse_message_option(builder, line))

parse_message_body_Field ==
    /\ in_message_line
    /\ body_is_field
    /\ finish_handler(parse_field(builder, line))

parse_message_body_Other ==
    /\ in_message_line
    /\ ~body_is_message
    /\ ~body_is_enum
    /\ ~body_is_option
    /\ ~body_is_field
    /\ next_line

(* the loops of parse_service_body and parse_enum_body *)

\* brace_count is a usize.  Its arithmetic is modelled modulo 2^64 with an
\* integer n < 0 standing for the wrapped value 2^64 + n, which is what a
\* build without overflow checks computes; a build with overflow checks
\* panics where brace_overflows holds.
brace_after(bc, l) == bc + matches_count(l, "{") - matches_count(l, "}")

\* the checked subtraction fails; a build with overflow checks never holds a
\* wrapped count, and the additions stay far below 2^64
brace_overflows(bc, l) ==
    LET added == bc + matches_count(l, "{")
    IN  bc >= 0 /\ matches_count(l, "}") > added

\* `if brace_count == 0 { break; }`, reached only when the line holds a '}'
brace_breaks(bc, l) == contains(l, <<"}">>) /\ brace_after(bc, l) = 0

is_skipped(l) == l = <<>> \/ starts_with(l, <<"/","/">>)

\* the loop condition holds and the line is neither empty nor a comment
in_block_line(kind) ==
    /\ in_body(kind)
    /\ has_line
    /\ frame.brace_count # 0
    /\ ~is_skipped(line)

\* the iteration ends: the handler left the builder as b, the brace count is
\* stored and current_line += 1
block_continue(b) ==
    /\ builder' = b
    /\ stack' = [stack EXCEPT ![Len(stack)].brace_count =
                    brace_after(frame.brace_count, line)]
    /\ current_line' = current_line + 1
    /\ UNCHANGED <<lines, result, error, output, generated>>

block_finish(r) == IF r.ok THEN block_continue(r.builder) ELSE fail(r.error)

\* a build with overflow checks: `attempt to add/subtract with overflow`
block_panic ==
    /\ result' = "Panic"
    /\ UNCHANGED <<lines, current_line, builder, stack, error, output, generated>>

parse_service_body_Exit ==
    /\ in_body("service")
    /\ (~has_line \/ frame.brace_count = 0)
    /\ return_ok(end_service(builder))

parse_service_body_Skip ==
    /\ in_body("service") /\ has_line /\ frame.brace_count # 0
    /\ is_skipped(line)
    /\ next_line

parse_service_body_Break ==
    /\ in_block_line("service")
    /\ brace_breaks(frame.brace_count, line)
    /\ return_ok(end_service(builder))

parse_service_body_Option ==
    /\ in_block_line("service")
    /\ ~brace_breaks(frame.brace_count, line)
    /\ starts_with(line, <<"o","p","t","i","o","n">>)
    /\ block_continue(parse_service_option(builder, line))

parse_service_body_Rpc ==
    /\ in_block_line("service")
    /\ ~brace_breaks(frame.brace_count, line)
    /\ ~starts_with(line, <<"o","p","t","i","o","n">>)
    /\ starts_with(line, <<"r","p","c">>)
    /\ block_finish(parse_method(builder, line))

parse_service_body_Other ==
    /\ in_block_line("service")
    /\ ~brace_breaks(frame.brace_count, line)
    /\ ~starts_with(line, <<"o","p","t","i","o","n">>)
    /\ ~starts_with(line, <<"r","p","c">>)
    /\ block_continue(builder)

parse_service_body_Panic ==
    /\ in_block_line("service")
    /\ brace_overflows(frame.brace_count, line)
    /\ block_panic

enum_is_value(l) ==
    contains(l, <<"=">>) /\ ~starts_with(l, <<"o","p","t","i","o","n">>)

parse_enum_body_Exit ==
    /\ in_body("enum")
    /\ (~has_line \/ frame.brace_count = 0)
    /\ return_ok(end_enum(builder))

parse_enum_body_Skip ==
    /\ in_body("enum") /\ has_line /\ frame.brace_count # 0
    /\ is_skipped(line)
    /\ next_line

parse_enum_body_Break ==
    /\ in_block_line("enum")
    /\ brace_breaks(frame.brace_count, line)
    /\ return_ok(end_enum(builder))

parse_enum_body_Value ==
    /\ in_block_line("enum")
    /\ ~brace_breaks(frame.brace_count, line)
    /\ enum_is_value(line)
    /\ block_finish(parse_enum_value(builder, line))

parse_enum_body_Other ==
    /\ in_block_line("enum")
    /\ ~brace_breaks(frame.brace_count, line)
    /\ ~enum_is_value(line)
    /\ block_continue(builder)

parse_enum_body_Panic ==
    /\ in_block_line("enum")
    /\ brace_overflows(frame.brace_count, line)
    /\ block_panic

----------------------------------------------------------------------------
(* Inputs and specifications *)

\* every source of at most n lines drawn from the set V of lines
Sources(V, n) == UNION {[1..k -> V] : k \in 0..n}

\* the state after ProtoParser::new(content) and the first two statements
\* of parse, for a source drawn from the set S
InitFrom(S) ==
    /\ lines \in S
    /\ current_line = 0
    /\ builder = AstBuilder_new
    /\ stack = <<>>
    /\ result = "running"
    /\ error = None
    /\ output = None
    /\ generated = None

\* for a source of at most n lines drawn from V
InitOver(V, n) == InitFrom(Sources(V, n))

finished == result # "running"

----------------------------------------------------------------------------
(* Spec: message blocks, nested or not, with fields *)

\* the longest source of Spec, in lines
MaxLines == 5

\* message A {
LMessageA ==
    <<"m","e","s","s","a","g","e"," ","A"," ","{">>

\* message B {
LMessageB ==
    <<"m","e","s","s","a","g","e"," ","B"," ","{">>

\* }
LClose ==
    <<"}">>

\* string x = 1;
LFieldX ==
    <<"s","t","r","i","n","g"," ","x"," ","="," ","1",";">>

\* repeated int32 t = 2;
LFieldT ==
    <<"r","e","p","e","a","t","e","d"," ","i","n","t","3","2"," ","t"," ","="," ","2",";">>

\* string n = ;
LFieldEmptyNumber ==
    <<"s","t","r","i","n","g"," ","n"," ","="," ",";">>

\* enums.Kind e = 3;
LFieldEnumsKind ==
    <<"e","n","u","m","s",".","K","i","n","d"," ","e"," ","="," ","3",";">>

\* LFieldEnumsKind is a field whose type is a package-qualified name
MessageLines ==
    {LMessageA, LMessageB, LClose, LFieldX, LFieldT, LFieldEmptyNumber,
     LFieldEnumsKind}

Init == InitOver(MessageLines, MaxLines)

Next ==
    \/ parse_Done
    \/ parse_Message
    \/ parse_Other
    \/ parse_message_body_Eof
    \/ parse_message_body_Close
    \/ parse_message_body_Message
    \/ parse_message_body_Field
    \/ parse_message_body_Other

Spec == Init /\ [][Next]_vars

(* The syntactic structure of a source of MessageLines, read off the text:   *)
(* a `message` line opens a block, a lone `}` closes the innermost open one. *)

IsMessageLine(l) == l \in {LMessageA, LMessageB}

NameOfMessageLine(l) == IF l = LMessageA THEN <<"A">> ELSE <<"B">>

\* the indices of the message lines still open before line i, outermost first
RECURSIVE OpenBefore(_, _)
OpenBefore(src, i) ==
    IF i = 1 THEN <<>>
    ELSE LET open == OpenBefore(src, i - 1)
             prev == src[i - 1]
         IN  IF IsMessageLine(prev) THEN Append(open, i - 1)
             ELSE IF prev = LClose /\ open # <<>>
             THEN SubSeq(open, 1, Len(open) - 1)
             ELSE open

\* the source ends inside a message block
Unterminated(src) == OpenBefore(src, Len(src) + 1) # <<>>

DistinctMessageNames(src) ==
    \A i, j \in 1..Len(src) :
        (IsMessageLine(src[i]) /\ IsMessageLine(src[j]) /\ i # j)
            => src[i] # src[j]

\* some message of msgs reached from the list `msgs` along the names `path`
\* holds a message named n directly in its nested_messages
RECURSIVE NestedUnder(_, _, _)
NestedUnder(msgs, path, n) ==
    \E k \in 1..Len(msgs) :
        /\ msgs[k].name = path[1]
        /\ IF Len(path) = 1
           THEN \E j \in 1..Len(msgs[k].nested_messages) :
                    msgs[k].nested_messages[j].name = n
           ELSE NestedUnder(msgs[k].nested_messages, Tail(path), n)

\* C1 (nesting invariant): after a successful parse every message declared
\* inside another message is in its syntactic parent's nested_messages and
\* is not in the file's top-level messages.
C1_NestingInvariant ==
    (result = "Ok" /\ DistinctMessageNames(lines)) =>
        \A i \in 1..Len(lines) :
            (IsMessageLine(lines[i]) /\ OpenBefore(lines, i) # <<>>) =>
                LET file == unwrap(output)
                    parents == OpenBefore(lines, i)
                    path == [k \in 1..Len(parents) |->
                                NameOfMessageLine(lines[parents[k]])]
                    n == NameOfMessageLine(lines[i])
                IN  /\ NestedUnder(file.messages, path, n)
                    /\ \A k \in 1..Len(file.messages) :
                           file.messages[k].name # n

\* the k-th smallest element of a finite set of integers
Nth(S, k) == CHOOSE x \in S : Cardinality({y \in S : y < x}) = k - 1

WellFormedFieldLines == {LFieldX, LFieldT, LFieldEnumsKind}

\* the name and number a well-formed field line declares
DeclaredField(l) ==
    CASE l = LFieldX -> [name |-> <<"x">>, number |-> 1]
      [] l = LFieldT -> [name |-> <<"t">>, number |-> 2]
      [] l = LFieldEnumsKind -> [name |-> <<"e">>, number |-> 3]

\* the source is a sequence of non-nested message blocks: an opening line,
\* well-formed field lines, a lone closing brace
FlatSource(src) ==
    /\ ~Unterminated(src)
    /\ \A i \in 1..Len(src) :
           IF OpenBefore(src, i) = <<>> THEN IsMessageLine(src[i])
           ELSE src[i] = LClose \/ src[i] \in WellFormedFieldLines

\* what the blocks of a flat source declare: per block, in source order,
\* the name and the (name, number) of each field line in declaration order
DeclaredMessages(src) ==
    LET starts == {i \in 1..Len(src) : IsMessageLine(src[i])}
        close(i) == SetMin({j \in (i + 1)..Len(src) : src[j] = LClose})
    IN  [k \in 1..Cardinality(starts) |->
            LET i == Nth(starts, k)
            IN  [ name |-> NameOfMessageLine(src[i]),
                  fields |-> [j \in 1..(close(i) - i - 1) |->
                                 DeclaredField(src[i + j])] ]]

\* name and (name, number) of the fields of each top-level message
ParsedMessages(file) ==
    [k \in 1..Len(file.messages) |->
        [ name |-> file.messages[k].name,
          fields |-> [j \in 1..Len(file.messages[k].fields) |->
                         [ name |-> file.messages[k].fields[j].name,
                           number |-> file.messages[k].fields[j].number ]] ]]

\* C4 (round-trip shape): for a source of non-nested message blocks with one
\* well-formed field per line, parse returns one Message per block in source
\* order, each with one Field per field line in declaration order, carrying
\* the declared name and the number of the source's integer literal.
C4_RoundTripShape ==
    (finished /\ FlatSource(lines)) =>
        /\ result = "Ok"
        /\ ParsedMessages(unwrap(output)) = DeclaredMessages(lines)

EofInMessage == "Unexpected end of file while parsing message"

----------------------------------------------------------------------------
(* SpecField: one message block with well-formed and malformed field lines *)

\* the longest source of SpecField, in lines
MaxFieldLines == 3

\* string n = 1x;
LFieldBadNumber ==
    <<"s","t","r","i","n","g"," ","n"," ","="," ","1","x",";">>

\* string n =
LFieldShort ==
    <<"s","t","r","i","n","g"," ","n"," ","=">>

\* string n =1;
LFieldNoSpace ==
    <<"s","t","r","i","n","g"," ","n"," ","=","1",";">>

\* repeated int32 t =2;
LRepeatedShort ==
    <<"r","e","p","e","a","t","e","d"," ","i","n","t","3","2"," ","t"," ","=","2",";">>

\* repeated int32 t = ;
LRepeatedEmptyNumber ==
    <<"r","e","p","e","a","t","e","d"," ","i","n","t","3","2"," ","t"," ","="," ",";">>

\* int64 h = 2147483648;
LFieldHuge ==
    <<"i","n","t","6","4"," ","h"," ","="," ","2","1","4","7","4","8","3","6","4","8",";">>

\* string z = 0;
LFieldZero ==
    <<"s","t","r","i","n","g"," ","z"," ","="," ","0",";">>

\* string m = -1;
LFieldNegative ==
    <<"s","t","r","i","n","g"," ","m"," ","="," ","-","1",";">>

\* optional string o = 1;
LFieldOptional ==
    <<"o","p","t","i","o","n","a","l"," ","s","t","r","i","n","g"," ","o"," ","="," ","1",";">>

\* required string r = 3;
LFieldRequired ==
    <<"r","e","q","u","i","r","e","d"," ","s","t","r","i","n","g"," ","r"," ","="," ","3",";">>

\* map<string, int32> m = 4;
LFieldMap ==
    <<"m","a","p","<","s","t","r","i","n","g",","," ","i","n","t","3","2",">"," ","m"," ","="," ","4",";">>

FieldLines ==
    {LMessageA, LClose, LFieldX, LFieldT, LFieldEmptyNumber, LFieldBadNumber,
     LFieldShort, LFieldNoSpace, LRepeatedShort, LRepeatedEmptyNumber,
     LFieldHuge, LFieldZero, LFieldNegative, LFieldOptional, LFieldRequired,
     LFieldMap}

InitField == InitOver(FieldLines, MaxFieldLines)

NextField ==
    \/ parse_Done
    \/ parse_Message
    \/ parse_Other
    \/ parse_message_body_Eof
    \/ parse_message_body_Close
    \/ parse_message_body_Field
    \/ parse_message_body_Other

SpecField == InitField /\ [][NextField]_vars

\* an optional sign followed by one or more decimal digits
IsIntegerLiteral(s) ==
    LET ds == IF s # <<>> /\ Head(s) \in {"+", "-"} THEN Tail(s) ELSE s
    IN  ds # <<>> /\ \A i \in 1..Len(ds) : is_digit(ds[i])

\* the tokens a field layout needs: `repeated <type> <name> = <number>;`
\* or `<type> <name> = <number>;`
TokensNeeded(l) ==
    IF split_whitespace(l)[1] = <<"r","e","p","e","a","t","e","d">> THEN 5 ELSE 4

\* the field-number token without its trailing `;`
NumberString(l) == trim_end_matches(split_whitespace(l)[TokensNeeded(l)], ";")

MalformedFieldLine(l) ==
    \/ Len(split_whitespace(l)) < TokensNeeded(l)
    \/ NumberString(l) = <<>>
    \/ ~IsIntegerLiteral(NumberString(l))

\* C6 (malformed field is fatal): when the message body hands a field line
\* to the field parser and the line has too few tokens for its layout, or
\* its number token (without the trailing `;`) is empty or not an integer
\* literal, parse returns an error carrying the offending line or the number
\* string, and no ProtoFile.
C6_MalformedFieldFatal ==
    [][ (in_message_line /\ body_is_field /\ MalformedFieldLine(line)) =>
            /\ result' = "Err"
            /\ output' = None
            /\ is_some(error')
            /\ \/ unwrap(error').arg = line
               \/ /\ Len(split_whitespace(line)) >= TokensNeeded(line)
                  /\ unwrap(error').arg = NumberString(line)
      ]_vars

\* Scenario D: `string n = ;` inside a message stops the parse
C6_Witness ==
    /\ result = "Err"
    /\ output = None
    /\ has_line
    /\ line = LFieldEmptyNumber
    /\ stack = <<[body |-> "message"]>>
    /\ unwrap(error) = [msg |-> "Empty field number in line: {}",
                        arg |-> LFieldEmptyNumber]

----------------------------------------------------------------------------
(* SpecOptions: one message block whose body holds channel-binding option    *)
(* lines and the field `string user_id = 1;`                                 *)

\* the longest body of the message of SpecOptions, in lines
MaxOptionLines == 4

\* message U {
LMessageU ==
    <<"m","e","s","s","a","g","e"," ","U"," ","{">>

\* string user_id = 1;
LFieldUserId ==
    <<"s","t","r","i","n","g"," ","u","s","e","r","_","i","d"," ","="," ","1",";">>

\* option (dmxp_channel) = "v";
LOptChannelParen ==
    <<"o","p","t","i","o","n"," ","(","d","m","x","p","_","c","h","a","n","n","e","l",")"," ","="," ","\"","v","\"",";">>

\* option dmxp_channel = "v";
LOptChannelBare ==
    <<"o","p","t","i","o","n"," ","d","m","x","p","_","c","h","a","n","n","e","l"," ","="," ","\"","v","\"",";">>

\* option (dmxp_persistent) = true;
LOptPersistent ==
    <<"o","p","t","i","o","n"," ","(","d","m","x","p","_","p","e","r","s","i","s","t","e","n","t",")"," ","="," ","t","r","u","e",";">>

\* option dmxp_persistent = false;
LOptPersistentOff ==
    <<"o","p","t","i","o","n"," ","d","m","x","p","_","p","e","r","s","i","s","t","e","n","t"," ","="," ","f","a","l","s","e",";">>

\* option (dmxp_buffer_size) = 64;
LOptBufferSize ==
    <<"o","p","t","i","o","n"," ","(","d","m","x","p","_","b","u","f","f","e","r","_","s","i","z","e",")"," ","="," ","6","4",";">>

\* option dmxp_priority = 7;
LOptPriority ==
    <<"o","p","t","i","o","n"," ","d","m","x","p","_","p","r","i","o","r","i","t","y"," ","="," ","7",";">>

\* option (dmxp_wal_enabled) = false;
LOptWalOff ==
    <<"o","p","t","i","o","n"," ","(","d","m","x","p","_","w","a","l","_","e","n","a","b","l","e","d",")"," ","="," ","f","a","l","s","e",";">>

\* option (dmxp_swap_enabled) = true;
LOptSwapOn ==
    <<"o","p","t","i","o","n"," ","(","d","m","x","p","_","s","w","a","p","_","e","n","a","b","l","e","d",")"," ","="," ","t","r","u","e",";">>

OptionLines ==
    {LOptChannelParen, LOptChannelBare, LOptPersistent, LOptPersistentOff,
     LOptBufferSize, LOptPriority, LOptWalOff, LOptSwapOn}

\* message U { <body> }
OptionSources ==
    {<<LMessageU>> \o body \o <<LClose>> :
        body \in Sources(OptionLines \cup {LFieldUserId}, MaxOptionLines)}

InitOptions == InitFrom(OptionSources)

NextOptions ==
    \/ parse_Done
    \/ parse_Message
    \/ parse_message_body_Close
    \/ parse_message_body_Option
    \/ parse_message_body_Field

SpecOptions == InitOptions /\ [][NextOptions]_vars

SubFields ==
    {"channel", "persistent", "buffer_size", "wal_enabled", "swap_enabled",
     "priority"}

\* the sub-field an option line names and the value it gives it
OptionSetting(l) ==
    CASE l = LOptChannelParen -> [field |-> "channel", value |-> <<"v">>]
      [] l = LOptChannelBare -> [field |-> "channel", value |-> <<"v">>]
      [] l = LOptPersistent -> [field |-> "persistent", value |-> TRUE]
      [] l = LOptPersistentOff -> [field |-> "persistent", value |-> FALSE]
      [] l = LOptBufferSize -> [field |-> "buffer_size", value |-> <<"6","4">>]
      [] l = LOptPriority -> [field |-> "priority", value |-> <<"7">>]
      [] l = LOptWalOff -> [field |-> "wal_enabled", value |-> FALSE]
      [] l = LOptSwapOn -> [field |-> "swap_enabled", value |-> TRUE]

SetMax(S) == CHOOSE x \in S : \A y \in S : y <= x

\* the binding the option lines of a source declare: per sub-field the value
\* of the last line naming it, nothing for a sub-field no line names
DeclaredBinding(src) ==
    [f \in SubFields |->
        LET at == {i \in 1..Len(src) :
                      src[i] \in OptionLines /\ OptionSetting(src[i]).field = f}
        IN  IF at = {} THEN None
            ELSE Some(OptionSetting(src[SetMax(at)]).value)]

HasOptionLine(src) == \E i \in 1..Len(src) : src[i] \in OptionLines

\* C2 (option merge): after a message whose body holds option lines, each
\* sub-field of the message's final dmxp_options holds the value of the last
\* option line naming it, whatever other option lines came later; a
\* sub-field no line names is unset.
C2_OptionMerge ==
    (finished /\ HasOptionLine(lines)) =>
        /\ result = "Ok"
        /\ Len(unwrap(output).messages) = 1
        /\ unwrap(output).messages[1].dmxp_options =
               Some(DeclaredBinding(lines))

\* persistence set first, buffer size and priority later: all three survive
C2_Witness ==
    /\ result = "Ok"
    /\ lines = <<LMessageU, LOptPersistent, LOptBufferSize, LOptPriority,
                 LClose>>
    /\ unwrap(unwrap(output).messages[1].dmxp_options) =
           [DmxpMessageOptions_none EXCEPT !.persistent = Some(TRUE),
                                           !.buffer_size = Some(<<"6","4">>),
                                           !.priority = Some(<<"7">>)]

\* message U with the channel "v" and the field user_id
UserMessage ==
    [ name |-> <<"U">>,
      fields |-> << [ name |-> <<"u","s","e","r","_","i","d">>,
                      field_type |-> [tag |-> "String", name |-> <<>>],
                      number |-> 1,
                      label |-> "Optional",
                      options |-> <<>>,
                      default_value |-> None ] >>,
      nested_messages |-> <<>>,
      nested_enums |-> <<>>,
      options |-> <<>>,
      dmxp_options |-> Some([ channel |-> Some(<<"v">>),
                              persistent |-> None,
                              buffer_size |-> None,
                              wal_enabled |-> None,
                              swap_enabled |-> None,
                              priority |-> None ]) ]

\* C5 (channel option, both spellings): a message whose body is the channel
\* option line `option (dmxp_channel) = "v";` or `option dmxp_channel = "v";`
\* followed by `string user_id = 1;` parses to one Message with channel
\* Some("v") and the single Field user_id of type String, number 1, label
\* Optional; both spellings give that same Message.
C5_ChannelBothSpellings ==
    \A opt \in {LOptChannelParen, LOptChannelBare} :
        (finished /\ lines = <<LMessageU, opt, LFieldUserId, LClose>>) =>
            /\ result = "Ok"
            /\ unwrap(output).messages = <<UserMessage>>

\* the spelling without parentheses has been parsed
C5_Witness ==
    /\ result = "Ok"
    /\ lines = <<LMessageU, LOptChannelBare, LFieldUserId, LClose>>
    /\ unwrap(output).messages = <<UserMessage>>

----------------------------------------------------------------------------
(* SpecServiceOptions: one service block whose body holds option lines and   *)
(* an rpc line                                                               *)

\* the longest body of the service of SpecServiceOptions, in lines
MaxServiceOptionLines == 5

\* service S {
LServiceS ==
    <<"s","e","r","v","i","c","e"," ","S"," ","{">>

\* option (dmxp_channels) = "a";
LOptChannelsA ==
    <<"o","p","t","i","o","n"," ","(","d","m","x","p","_","c","h","a","n","n","e","l","s",")"," ","="," ","\"","a","\"",";">>

\* option dmxp_channels = "b";
LOptChannelsB ==
    <<"o","p","t","i","o","n"," ","d","m","x","p","_","c","h","a","n","n","e","l","s"," ","="," ","\"","b","\"",";">>

\* option (dmxp_timeout_ms) = 500;
LOptTimeout ==
    <<"o","p","t","i","o","n"," ","(","d","m","x","p","_","t","i","m","e","o","u","t","_","m","s",")"," ","="," ","5","0","0",";">>

\* option (dmxp_retry_count) = 3;
LOptRetry ==
    <<"o","p","t","i","o","n"," ","(","d","m","x","p","_","r","e","t","r","y","_","c","o","u","n","t",")"," ","="," ","3",";">>

\* rpc G(I) returns (O);
LRpcG ==
    <<"r","p","c"," ","G","(","I",")"," ","r","e","t","u","r","n","s"," ","(","O",")",";">>

ChannelsLines == {LOptChannelsA, LOptChannelsB}

\* service S { <body> }
ServiceOptionSources ==
    {<<LServiceS>> \o body \o <<LClose>> :
        body \in Sources(ChannelsLines \cup {LOptTimeout, LOptRetry, LRpcG},
                         MaxServiceOptionLines)}

InitServiceOptions == InitFrom(ServiceOptionSources)

NextServiceOptions ==
    \/ parse_Done
    \/ parse_Service
    \/ parse_service_body_Break
    \/ parse_service_body_Option
    \/ parse_service_body_Rpc

SpecServiceOptions == InitServiceOptions /\ [][NextServiceOptions]_vars

ChannelName(l) ==
    CASE l = LOptChannelsA -> <<"a">>
      [] l = LOptChannelsB -> <<"b">>

\* the channel names of the channels lines of a source, in source order
DeclaredChannels(src) ==
    LET ch == SelectSeq(src, LAMBDA l : l \in ChannelsLines)
    IN  [i \in 1..Len(ch) |-> ChannelName(ch[i])]

\* C3 (service channel accumulation): after a service whose body holds k >= 1
\* `dmxp_channels` option lines, the service's dmxp_options.channels is the
\* list of the k channel names in source order, whatever `dmxp_timeout_ms`,
\* `dmxp_retry_count` or rpc lines stand between them.
C3_ChannelAccumulation ==
    (finished /\ DeclaredChannels(lines) # <<>>) =>
        /\ result = "Ok"
        /\ Len(unwrap(output).services) = 1
        /\ is_some(unwrap(output).services[1].dmxp_options)
        /\ unwrap(unwrap(output).services[1].dmxp_options).channels =
               DeclaredChannels(lines)

\* two channels lines with a timeout line between them and a retry line after
C3_Witness ==
    /\ result = "Ok"
    /\ lines = <<LServiceS, LOptChannelsA, LOptTimeout, LOptChannelsB,
                 LOptRetry, LClose>>
    /\ unwrap(unwrap(output).services[1].dmxp_options) =
           [ channels |-> << <<"a">>, <<"b">> >>,
             timeout_ms |-> Some(<<"5","0","0">>),
             retry_count |-> Some(<<"3">>) ]

----------------------------------------------------------------------------
(* SpecBlocks: service and enum blocks, closed or not, with rpc lines and    *)
(* enum values                                                               *)

\* the longest source of SpecBlocks, in lines
MaxBlockLines == 5

\* rpc H (P) returns (Q);
LRpcH ==
    <<"r","p","c"," ","H"," ","(","P",")"," ","r","e","t","u","r","n","s"," ","(","Q",")",";">>

\* enum E {
LEnumE ==
    <<"e","n","u","m"," ","E"," ","{">>

\* A = 0;
LValueA ==
    <<"A"," ","="," ","0",";">>

\* B = 1;
LValueB ==
    <<"B"," ","="," ","1",";">>

BlockLines == {LServiceS, LEnumE, LClose, LRpcG, LRpcH, LValueA, LValueB}

InitBlocks == InitOver(BlockLines, MaxBlockLines)

NextBlocks ==
    \/ parse_Done
    \/ parse_Service
    \/ parse_Enum
    \/ parse_Other
    \/ parse_service_body_Exit
    \/ parse_service_body_Break
    \/ parse_service_body_Rpc
    \/ parse_service_body_Other
    \/ parse_enum_body_Exit
    \/ parse_enum_body_Break
    \/ parse_enum_body_Value
    \/ parse_enum_body_Other

SpecBlocks == InitBlocks /\ [][NextBlocks]_vars

\* the source opens a service or an enum block on its first line and holds
\* no closing brace at all
EndsInsideBlock(src) ==
    /\ src # <<>>
    /\ src[1] \in {LServiceS, LEnumE}
    /\ \A i \in 1..Len(src) : src[i] # LClose

\* C8 (unterminated service or enum): if the source ends before the closing
\* brace of an open service or enum block, parse returns an error and no
\* ProtoFile.
C8_UnterminatedBlock ==
    (finished /\ EndsInsideBlock(lines)) =>
        /\ result = "Err"
        /\ output = None

RpcLines == {LRpcG, LRpcH}

DeclaredMethod(l) ==
    CASE l = LRpcG -> [ name |-> <<"G">>, input_type |-> <<"I">>,
                        output_type |-> <<"O">>, options |-> <<>>,
                        dmxp_options |-> None ]
      [] l = LRpcH -> [ name |-> <<"H">>, input_type |-> <<"P">>,
                        output_type |-> <<"Q">>, options |-> <<>>,
                        dmxp_options |-> None ]

\* service S {, k well-formed rpc lines, }
ServiceOfRpcs(src) ==
    /\ Len(src) >= 2
    /\ src[1] = LServiceS
    /\ src[Len(src)] = LClose
    /\ \A i \in 2..(Len(src) - 1) : src[i] \in RpcLines

\* C10 (service and methods): a service block of k well-formed rpc lines and
\* a closing brace parses to exactly one Service of that name, whose methods
\* are the k declared methods in source order, each with its name, input
\* type and output type, empty options and no channel binding.
C10_ServiceAndMethods ==
    (finished /\ ServiceOfRpcs(lines)) =>
        /\ result = "Ok"
        /\ unwrap(output).services =
               << [ name |-> <<"S">>,
                    methods |-> [k \in 1..(Len(lines) - 2) |->
                                    DeclaredMethod(lines[k + 1])],
                    options |-> <<>>,
                    dmxp_options |-> None ] >>

\* a service of three methods has been parsed
C10_Witness ==
    /\ result = "Ok"
    /\ lines = <<LServiceS, LRpcG, LRpcH, LRpcG, LClose>>
    /\ Len(unwrap(output).services) = 1
    /\ Len(unwrap(output).services[1].methods) = 3
    /\ unwrap(output).services[1].methods[2].name = <<"H">>

----------------------------------------------------------------------------
(* SpecMixed: message, service and enum blocks whose bodies hold lines that  *)
(* their handlers reject                                                     *)

\* the longest source of SpecMixed, in lines
MaxMixedLines == 5

\* rpc G(I) return (O);
LRpcBad ==
    <<"r","p","c"," ","G","(","I",")"," ","r","e","t","u","r","n"," ","(","O",")",";">>

MixedLines ==
    {LMessageA, LServiceS, LEnumE, LClose, LFieldX, LFieldEmptyNumber,
     LRpcBad}

InitMixed == InitOver(MixedLines, MaxMixedLines)

NextMixed ==
    \/ parse_Done
    \/ parse_Message
    \/ parse_Service
    \/ parse_Enum
    \/ parse_Other
    \/ parse_message_body_Eof
    \/ parse_message_body_Close
    \/ parse_message_body_Message
    \/ parse_message_body_Enum
    \/ parse_message_body_Field
    \/ parse_message_body_Other
    \/ parse_service_body_Exit
    \/ parse_service_body_Break
    \/ parse_service_body_Rpc
    \/ parse_service_body_Other
    \/ parse_enum_body_Exit
    \/ parse_enum_body_Break
    \/ parse_enum_body_Value
    \/ parse_enum_body_Other

SpecMixed == InitMixed /\ [][NextMixed]_vars

OpenerKind(l) ==
    CASE l = LMessageA -> "message"
      [] l = LServiceS -> "service"
      [] l = LEnumE -> "enum"
      [] OTHER -> "top"

\* the block line i of src stands in, for a source whose blocks do not nest:
\* "top" outside every block
RECURSIVE Context(_, _)
Context(src, i) ==
    IF i = 1 THEN "top"
    ELSE LET before == Context(src, i - 1)
         IN  IF before = "top" THEN OpenerKind(src[i - 1])
             ELSE IF src[i - 1] = LClose THEN "top"
             ELSE before

\* no block is opened inside another block
FlatBlocks(src) ==
    \A i \in 1..Len(src) :
        Context(src, i) # "top" => OpenerKind(src[i]) = "top"

\* line i is one the body parser of its block rejects: `string n = ;` is a
\* field without a number in a message and a value without a number in an
\* enum, `rpc G(I) return (O);` is not an rpc declaration in a service
RejectedAt(src, i) ==
    \/ Context(src, i) = "message" /\ src[i] = LFieldEmptyNumber
    \/ Context(src, i) = "service" /\ src[i] = LRpcBad
    \/ Context(src, i) = "enum" /\ src[i] = LFieldEmptyNumber

RejectionMessage(src, i) ==
    CASE Context(src, i) = "message" -> "Empty field number in line: {}"
      [] Context(src, i) = "service" -> "Invalid RPC syntax: {}"
      [] Context(src, i) = "enum" -> "ParseIntError"

\* C9 (fail-fast, no partial tree): the step in which a body parser reports
\* an error ends the parse at that line with the error and no ProtoFile, no
\* step follows it, and no step that is not an error records one; for a
\* source of non-nested blocks the error returned is that of the first
\* rejected line in source order (or the end of input inside a message when
\* no line is rejected), however many declarations were committed before it.
C9_FailFast ==
    /\ [][ /\ result = "running"
           /\ result' = "Err" =>
                  /\ current_line' = current_line
                  /\ output' = None
                  /\ is_some(error')
           /\ result' # "Err" => error' = None ]_vars
    /\ [](result = "Err" => output = None)
    /\ []((finished /\ FlatBlocks(lines)) =>
            LET rejected == {i \in 1..Len(lines) : RejectedAt(lines, i)}
            IN  IF rejected # {}
                THEN /\ result = "Err"
                     /\ current_line = SetMin(rejected) - 1
                     /\ unwrap(error).msg =
                            RejectionMessage(lines, SetMin(rejected))
                ELSE IF Context(lines, Len(lines) + 1) = "message"
                THEN /\ result = "Err"
                     /\ current_line = Len(lines)
                     /\ unwrap(error).msg = EofInMessage
                ELSE Context(lines, Len(lines) + 1) = "top" =>
                         result = "Ok")

\* a message was committed, then a service's rpc line was rejected with a
\* further rejected line after it that was never dispatched
C9_Witness ==
    /\ result = "Err"
    /\ output = None
    /\ lines = <<LMessageA, LClose, LServiceS, LRpcBad, LRpcBad>>
    /\ current_line = 3
    /\ Len(builder.current_file.messages) = 1
    /\ unwrap(error).msg = "Invalid RPC syntax: {}"

----------------------------------------------------------------------------
(* Claims on enum blocks, checked under SpecBlocks *)

ValueLines == {LValueA, LValueB}

DeclaredValue(l) ==
    CASE l = LValueA -> [name |-> <<"A">>, number |-> 0, options |-> <<>>]
      [] l = LValueB -> [name |-> <<"B">>, number |-> 1, options |-> <<>>]

\* enum E {, k lines `<NAME> = <int>;`, }
EnumOfValues(src) ==
    /\ Len(src) >= 2
    /\ src[1] = LEnumE
    /\ src[Len(src)] = LClose
    /\ \A i \in 2..(Len(src) - 1) : src[i] \in ValueLines

\* C11 (top-level enum): a file-level enum block of k value lines and a
\* closing brace parses to exactly one Enum of that name in the file's enums
\* list, whose values are the k (name, number) pairs in source order.
C11_TopLevelEnum ==
    (finished /\ EnumOfValues(lines)) =>
        /\ result = "Ok"
        /\ unwrap(output).enums =
               << [ name |-> <<"E">>,
                    values |-> [k \in 1..(Len(lines) - 2) |->
                                   DeclaredValue(lines[k + 1])],
                    options |-> <<>> ] >>

\* an enum of the values B, A, B has been parsed
C11_Witness ==
    /\ result = "Ok"
    /\ lines = <<LEnumE, LValueB, LValueA, LValueB, LClose>>
    /\ Len(unwrap(output).enums) = 1
    /\ Len(unwrap(output).enums[1].values) = 3
    /\ unwrap(output).enums[1].values[2] =
           [name |-> <<"A">>, number |-> 0, options |-> <<>>]

----------------------------------------------------------------------------
(* SpecNested: message blocks holding fields, nested messages and enums *)

\* the longest source of SpecNested, in lines
MaxNestedLines == 6

NestedLines == {LMessageA, LMessageB, LEnumE, LClose, LFieldX}

InitNested == InitOver(NestedLines, MaxNestedLines)

NextNested ==
    \/ parse_Done
    \/ parse_Message
    \/ parse_Enum
    \/ parse_Other
    \/ parse_message_body_Eof
    \/ parse_message_body_Close
    \/ parse_message_body_Message
    \/ parse_message_body_Enum
    \/ parse_message_body_Field
    \/ parse_enum_body_Exit
    \/ parse_enum_body_Break
    \/ parse_enum_body_Value
    \/ parse_enum_body_Other

SpecNested == InitNested /\ [][NextNested]_vars

\* the indices of the message and enum lines still open before line i,
\* outermost first
RECURSIVE OpenBlocks(_, _)
OpenBlocks(src, i) ==
    IF i = 1 THEN <<>>
    ELSE LET open == OpenBlocks(src, i - 1)
             prev == src[i - 1]
         IN  IF IsMessageLine(prev) \/ prev = LEnumE THEN Append(open, i - 1)
             ELSE IF prev = LClose /\ open # <<>>
             THEN SubSeq(open, 1, Len(open) - 1)
             ELSE open

\* the innermost block open before line i
Innermost(src, i) == src[OpenBlocks(src, i)[Len(OpenBlocks(src, i))]]

\* every block line stands at file level or directly in a message body
BlocksInMessages(src) ==
    \A i \in 1..Len(src) :
        (IsMessageLine(src[i]) \/ src[i] = LEnumE) =>
            (OpenBlocks(src, i) = <<>> \/ IsMessageLine(Innermost(src, i)))

\* the messages of a list and, to any depth, the messages nested in them
RECURSIVE MessagesUnder(_)
MessagesUnder(msgs) ==
    UNION {{msgs[k]} \cup MessagesUnder(msgs[k].nested_messages) :
              k \in 1..Len(msgs)}

HoldsEnumE(enums) == \E k \in 1..Len(enums) : enums[k].name = <<"E">>

\* C12 (nested enum placement): after a successful parse, an enum declared
\* inside a message body is in that message's nested_enums and not in the
\* file's enums, wherever in the body it stands; an enum declared at file
\* level is in the file's enums.
C12_NestedEnumPlacement ==
    ( /\ result = "Ok"
      /\ DistinctMessageNames(lines)
      /\ BlocksInMessages(lines)
      /\ Cardinality({i \in 1..Len(lines) : lines[i] = LEnumE}) = 1 ) =>
        \A i \in 1..Len(lines) :
            lines[i] = LEnumE =>
                LET file == unwrap(output)
                IN  IF OpenBlocks(lines, i) = <<>>
                    THEN HoldsEnumE(file.enums)
                    ELSE /\ ~HoldsEnumE(file.enums)
                         /\ \E m \in MessagesUnder(file.messages) :
                                /\ m.name =
                                       NameOfMessageLine(Innermost(lines, i))
                                /\ HoldsEnumE(m.nested_enums)

\* C13 (every append is in scope): whenever the parser is about to call
\* add_field or set_dmxp_message_options the builder has an open message,
\* whenever it is about to call add_method it has an open service, and
\* whenever it is about to call add_enum_value it has an open enum.
C13_AppendsInScope ==
    /\ (in_message_line /\ body_is_field /\ parse_field(builder, line).ok)
           => is_some(builder.current_message)
    /\ (in_message_line /\ body_is_option
            /\ contains(line, <<"d","m","x","p","_">>))
           => is_some(builder.current_message)
    /\ (in_block_line("service")
            /\ ~brace_breaks(frame.brace_count, line)
            /\ ~starts_with(line, <<"o","p","t","i","o","n">>)
            /\ starts_with(line, <<"r","p","c">>)
            /\ parse_method(builder, line).ok
            /\ parse_method(builder, line).builder # builder)
           => is_some(builder.current_service)
    /\ (in_block_line("enum")
            /\ ~brace_breaks(frame.brace_count, line)
            /\ enum_is_value(line)
            /\ parse_enum_value(builder, line).ok)
           => is_some(builder.current_enum)

----------------------------------------------------------------------------
(* SpecLeniency: the public methods of AstBuilder called in any order on a   *)
(* new builder, with no parser running                                       *)

\* the most declarations (messages, fields, options, services, methods,
\* enums, values) a builder of SpecLeniency holds
MaxBuilderNodes == 3

RECURSIVE SumOf(_)
SumOf(ns) == IF ns = <<>> THEN 0 ELSE Head(ns) + SumOf(Tail(ns))

EnumNodes(e) == 1 + Len(e.values) + Len(e.options)

ServiceNodes(sv) == 1 + Len(sv.methods) + Len(sv.options)

RECURSIVE MessageNodes(_)
MessageNodes(m) ==
    1 + Len(m.fields) + Len(m.options)
      + SumOf([k \in 1..Len(m.nested_enums) |-> EnumNodes(m.nested_enums[k])])
      + SumOf([k \in 1..Len(m.nested_messages) |->
                  MessageNodes(m.nested_messages[k])])

BuilderNodes(b) ==
    LET f == b.current_file
    IN  SumOf([k \in 1..Len(f.messages) |-> MessageNodes(f.messages[k])])
        + SumOf([k \in 1..Len(f.services) |-> ServiceNodes(f.services[k])])
        + SumOf([k \in 1..Len(f.enums) |-> EnumNodes(f.enums[k])])
        + (IF is_some(b.current_message)
           THEN MessageNodes(unwrap(b.current_message)) ELSE 0)
        + (IF is_some(b.current_service)
           THEN ServiceNodes(unwrap(b.current_service)) ELSE 0)
        + (IF is_some(b.current_enum)
           THEN EnumNodes(unwrap(b.current_enum)) ELSE 0)

SampleNames == {<<"A">>, <<"B">>}

SampleField ==
    [ name |-> <<"x">>, field_type |-> [tag |-> "String", name |-> <<>>],
      number |-> 1, label |-> "Optional", options |-> <<>>,
      default_value |-> None ]

SampleOption == [name |-> <<"o">>, value |-> [tag |-> "Boolean", value |-> TRUE]]

SampleMethod ==
    [ name |-> <<"G">>, input_type |-> <<"I">>, output_type |-> <<"O">>,
      options |-> <<>>, dmxp_options |-> None ]

SampleValue == [name |-> <<"A">>, number |-> 0, options |-> <<>>]

SampleMessageOptions ==
    [DmxpMessageOptions_none EXCEPT !.channel = Some(<<"v">>)]

SampleServiceOptions ==
    [DmxpServiceOptions_empty EXCEPT !.channels = << <<"a">> >>]

InitLeniency == InitFrom({<<>>})

\* a caller holds the builder: no parse has consumed it
can_call == result = "running"

\* a builder method returns, leaving the builder as b
returns(b) ==
    /\ BuilderNodes(b) <= MaxBuilderNodes
    /\ builder' = b
    /\ UNCHANGED <<lines, current_line, stack, result, error, output, generated>>

call_start_message ==
    can_call /\ \E n \in SampleNames : returns(start_message(builder, n))

call_end_message == can_call /\ returns(end_message(builder))

call_add_field == can_call /\ returns(add_field(builder, SampleField))

call_add_message_option ==
    can_call /\ returns(add_message_option(builder, SampleOption))

call_set_dmxp_message_options ==
    can_call /\ returns(set_dmxp_message_options(builder, SampleMessageOptions))

call_start_service ==
    can_call /\ \E n \in SampleNames : returns(start_service(builder, n))

call_end_service == can_call /\ returns(end_service(builder))

call_add_method == can_call /\ returns(add_method(builder, SampleMethod))

call_add_service_option ==
    can_call /\ returns(add_service_option(builder, SampleOption))

call_set_dmxp_service_options ==
    can_call /\ returns(set_dmxp_service_options(builder, SampleServiceOptions))

call_start_enum ==
    can_call /\ \E n \in SampleNames : returns(start_enum(builder, n))

call_end_enum == can_call /\ returns(end_enum(builder))

call_add_enum_value == can_call /\ returns(add_enum_value(builder, SampleValue))

NextLeniency ==
    \/ call_start_message
    \/ call_end_message
    \/ call_add_field
    \/ call_add_message_option
    \/ call_set_dmxp_message_options
    \/ call_start_service
    \/ call_end_service
    \/ call_add_method
    \/ call_add_service_option
    \/ call_set_dmxp_service_options
    \/ call_start_enum
    \/ call_end_enum
    \/ call_add_enum_value

SpecLeniency == InitLeniency /\ [][NextLeniency]_vars

\* C14 (builder leniency is a pure no-op): in every state of the builder,
\* add_field, add_message_option and set_dmxp_message_options called with no
\* message open, add_method, add_service_option and set_dmxp_service_options
\* called with no service open, and add_enum_value called with no enum open
\* return the builder unchanged: the file and the three open-frame slots.
C14_LeniencyNoOp ==
    /\ builder.current_message = None =>
           /\ add_field(builder, SampleField) = builder
           /\ add_message_option(builder, SampleOption) = builder
           /\ set_dmxp_message_options(builder, SampleMessageOptions) = builder
    /\ builder.current_service = None =>
           /\ add_method(builder, SampleMethod) = builder
           /\ add_service_option(builder, SampleOption) = builder
           /\ set_dmxp_service_options(builder, SampleServiceOptions) = builder
    /\ builder.current_enum = None =>
           add_enum_value(builder, SampleValue) = builder

\* no frame is open and the file holds a message, a service and an enum
\* closed before
C14_Witness ==
    /\ builder.current_message = None
    /\ builder.current_service = None
    /\ builder.current_enum = None
    /\ Len(builder.current_file.messages) = 1
    /\ Len(builder.current_file.services) = 1
    /\ Len(builder.current_file.enums) = 1

----------------------------------------------------------------------------
(* Claims on top-level lines, checked under SpecMixed *)

\* the line begins with none of `syntax`, `package`, `message `, `service `,
\* `enum `
OpensNothing(l) ==
    /\ ~starts_with(l, <<"s","y","n","t","a","x">>)
    /\ ~starts_with(l, <<"p","a","c","k","a","g","e">>)
    /\ ~starts_with(l, <<"m","e","s","s","a","g","e"," ">>)
    /\ ~starts_with(l, <<"s","e","r","v","i","c","e"," ">>)
    /\ ~starts_with(l, <<"e","n","u","m"," ">>)

\* C15 (unrecognized top-level lines are skipped): the step taken on a
\* non-blank top-level line that begins with none of `syntax`, `package`,
\* `message `, `service `, `enum ` reports no error, moves the cursor forward
\* by exactly one line and leaves the builder, with the tree it holds,
\* unchanged.
C15_TopLevelSkip ==
    [][ (at_top /\ has_line /\ line # <<>> /\ OpensNothing(line)) =>
            /\ result' = "running"
            /\ error' = None
            /\ current_line' = current_line + 1
            /\ builder' = builder
            /\ stack' = stack
      ]_vars

\* a stray closing brace and a stray rpc line after a committed message have
\* been skipped
C15_Witness ==
    /\ at_top
    /\ Len(lines) = 5
    /\ SubSeq(lines, 1, 4) = <<LMessageA, LClose, LClose, LRpcBad>>
    /\ current_line = 4
    /\ Len(builder.current_file.messages) = 1
    /\ error = None

----------------------------------------------------------------------------
(* SpecMessageOptions: one message block whose body holds option lines that  *)
(* name no recognized key or give no usable value                            *)

\* the longest body of the message of SpecMessageOptions, in lines
MaxUnrecordedLines == 3

\* option (dmxp_topic) = "t";
LOptUnknownKey ==
    <<"o","p","t","i","o","n"," ","(","d","m","x","p","_","t","o","p","i","c",")"," ","="," ","\"","t","\"",";">>

\* option (dmxp_buffer_size) = big;
LOptBadBuffer ==
    <<"o","p","t","i","o","n"," ","(","d","m","x","p","_","b","u","f","f","e","r","_","s","i","z","e",")"," ","="," ","b","i","g",";">>

\* option (dmxp_channel);
LOptNoValue ==
    <<"o","p","t","i","o","n"," ","(","d","m","x","p","_","c","h","a","n","n","e","l",")",";">>

\* option java_package = "p";
LOptJava ==
    <<"o","p","t","i","o","n"," ","j","a","v","a","_","p","a","c","k","a","g","e"," ","="," ","\"","p","\"",";">>

\* option lines that set nothing: an unknown dmxp key, a buffer size that is
\* not a number, a channel key without a value, a key of another vocabulary
UnrecordedLines == {LOptUnknownKey, LOptBadBuffer, LOptNoValue, LOptJava}

MessageOptionSources ==
    {<<LMessageU>> \o body \o <<LClose>> :
        body \in Sources(UnrecordedLines \cup {LOptPersistent, LFieldUserId},
                         MaxUnrecordedLines)}

InitMessageOptions == InitFrom(MessageOptionSources)

NextMessageOptions ==
    \/ parse_Done
    \/ parse_Message
    \/ parse_message_body_Close
    \/ parse_message_body_Option
    \/ parse_message_body_Field

SpecMessageOptions == InitMessageOptions /\ [][NextMessageOptions]_vars

\* C16 (unrecognized or unparseable option lines record nothing): the step
\* taken on an option line of a message body whose key is not a recognized
\* message key, or whose value cannot be extracted or parsed as the key's
\* type, reports no error and leaves the open message unchanged; in
\* particular its dmxp_options stays None if it was None.
C16_UnrecordedOption ==
    [][ (in_message_line /\ line \in UnrecordedLines) =>
            /\ result' = "running"
            /\ error' = None
            /\ builder' = builder
      ]_vars

----------------------------------------------------------------------------
(* Claims on field numbers, checked under SpecField *)

\* C17 (field numbers are positive): every Field of every Message in the
\* ProtoFile of a successful parse has number >= 1.
C17_PositiveFieldNumbers ==
    result = "Ok" =>
        \A m \in MessagesUnder(unwrap(output).messages) :
            \A k \in 1..Len(m.fields) : m.fields[k].number >= 1

----------------------------------------------------------------------------
(* Claims on the field classifier, checked under SpecField *)

ConstructKeywords ==
    { <<"m","e","s","s","a","g","e">>, <<"s","e","r","v","i","c","e">>,
      <<"e","n","u","m">>, <<"o","p","t","i","o","n">>, <<"r","p","c">> }

LabelKeywords ==
    { <<"o","p","t","i","o","n","a","l">>, <<"r","e","q","u","i","r","e","d">>,
      <<"r","e","p","e","a","t","e","d">> }

\* the classification the claim gives: the first word is no construct
\* keyword, there are at least 3 tokens, and token 2 contains '=' or token 0
\* is a label keyword and token 3 contains '='
ClaimedFieldLine(l) ==
    LET toks == split_whitespace(l)
    IN  /\ Len(toks) >= 3
        /\ toks[1] \notin ConstructKeywords
        /\ \/ contains(toks[3], <<"=">>)
           \/ /\ toks[1] \in LabelKeywords
              /\ Len(toks) >= 4
              /\ contains(toks[4], <<"=">>)

\* C18 (field classifier): on every line a message body classifies,
\* is_field_line is true exactly when the line does not begin with a
\* construct keyword, has at least 3 tokens and has '=' in token 2, or in
\* token 3 behind a label keyword at token 0.
C18_FieldClassifier ==
    in_message_line => (is_field_line(line) <=> ClaimedFieldLine(line))

----------------------------------------------------------------------------
(* templateGen::helpers: the conversion tables and the channel stubs.  A   *)
(* String is the sequence of its characters; format! is the concatenation  *)
(* of the pieces of its template with its arguments.                       *)

Languages == {"Rust", "Go"}

\* Iterator<Item = String>::collect::<String>()
RECURSIVE collect(_)
collect(words) ==
    IF words = <<>> THEN <<>> ELSE Head(words) \o collect(Tail(words))

\* FieldType::Map(key, value) carries its two types in `key` and `value`
RECURSIVE convert_to_rust_type(_)
convert_to_rust_type(field_type) ==
    CASE field_type.tag = "Double" -> <<"f","6","4">>
      [] field_type.tag = "Float" -> <<"f","3","2">>
      [] field_type.tag = "Int32" -> <<"i","3","2">>
      [] field_type.tag = "Int64" -> <<"i","6","4">>
      [] field_type.tag = "Uint32" -> <<"u","3","2">>
      [] field_type.tag = "Uint64" -> <<"u","6","4">>
      [] field_type.tag = "Sint32" -> <<"i","3","2">>
      [] field_type.tag = "Sint64" -> <<"i","6","4">>
      [] field_type.tag = "Fixed32" -> <<"u","3","2">>
      [] field_type.tag = "Fixed64" -> <<"u","6","4">>
      [] field_type.tag = "Sfixed32" -> <<"i","3","2">>
      [] field_type.tag = "Sfixed64" -> <<"i","6","4">>
      [] field_type.tag = "Bool" -> <<"b","o","o","l">>
      [] field_type.tag = "String" -> <<"S","t","r","i","n","g">>
      [] field_type.tag = "Bytes" -> <<"V","e","c","<","u","8",">">>
      [] field_type.tag = "Message" -> field_type.name
      [] field_type.tag = "Enum" -> field_type.name
      [] field_type.tag = "Map" ->
            <<"H","a","s","h","M","a","p","<">> \o convert_to_rust_type(field_type.key)
            \o <<","," ">> \o convert_to_rust_type(field_type.value) \o <<">">>

RECURSIVE convert_to_go_type(_)
convert_to_go_type(field_type) ==
    CASE field_type.tag = "Double" -> <<"f","l","o","a","t","6","4">>
      [] field_type.tag = "Float" -> <<"f","l","o","a","t","3","2">>
      [] field_type.tag = "Int32" -> <<"i","n","t","3","2">>
      [] field_type.tag = "Int64" -> <<"i","n","t","6","4">>
      [] field_type.tag = "Uint32" -> <<"u","i","n","t","3","2">>
      [] field_type.tag = "Uint64" -> <<"u","i","n","t","6","4">>
      [] field_type.tag = "Sint32" -> <<"i","n","t","3","2">>
      [] field_type.tag = "Sint64" -> <<"i","n","t","6","4">>
      [] field_type.tag = "Fixed32" -> <<"u","i","n","t","3","2">>
      [] field_type.tag = "Fixed64" -> <<"u","i","n","t","6","4">>
      [] field_type.tag = "Sfixed32" -> <<"i","n","t","3","2">>
      [] field_type.tag = "Sfixed64" -> <<"i","n","t","6","4">>
      [] field_type.tag = "Bool" -> <<"b","o","o","l">>
      [] field_type.tag = "String" -> <<"s","t","r","i","n","g">>
      [] field_type.tag = "Bytes" -> <<"[","]","b","y","t","e">>
      [] field_type.tag = "Message" -> <<"*">> \o field_type.name
      [] field_type.tag = "Enum" -> field_type.name
      [] field_type.tag = "Map" ->
            <<"m","a","p","[">> \o convert_to_go_type(field_type.key)
            \o <<"]">> \o convert_to_go_type(field_type.value)

convert_field_type(field_type, language) ==
    CASE language = "Rust" -> convert_to_rust_type(field_type)
      [] language = "Go" -> convert_to_go_type(field_type)

convert_field_label(label, language) ==
    CASE language = "Rust" ->
            (CASE label = "Optional" -> <<"O","p","t","i","o","n","<">>
               [] label = "Required" -> <<>>
               [] label = "Repeated" -> <<"V","e","c","<">>)
      [] language = "Go" ->
            (CASE label = "Optional" -> <<"*">>
               [] label = "Required" -> <<>>
               [] label = "Repeated" -> <<"[","]">>)

LowerCase ==
    <<"a","b","c","d","e","f","g","h","i","j","k","l","m","n","o","p","q","r","s","t","u","v","w","x","y","z">>

UpperCase ==
    <<"A","B","C","D","E","F","G","H","I","J","K","L","M","N","O","P","Q","R","S","T","U","V","W","X","Y","Z">>

\* char::to_uppercase, over ASCII: the characters it yields
to_uppercase(c) ==
    IF \E i \in 1..Len(LowerCase) : LowerCase[i] = c
    THEN <<UpperCase[CHOOSE i \in 1..Len(LowerCase) : LowerCase[i] = c]>>
    ELSE <<c>>

\* mutant: the words are concatenated as they are
to_pascal_case_KeepsCase(s) == collect(split_char(s, "_"))

to_pascal_case(s) ==
    LET words == split_char(s, "_")
        capitalized(word) ==
            IF word = <<>> THEN <<>>
            ELSE to_uppercase(Head(word)) \o Tail(word)
    IN  collect([i \in 1..Len(words) |-> capitalized(words[i])])

convert_field_name(name, language) ==
    CASE language = "Rust" -> name
      [] language = "Go" -> to_pascal_case(name)

generate_rust_dmxp_code(message, channel) ==
    <<"\n","i","m","p","l"," ">>
    \o message.name \o
    <<" ","{","\n"," "," "," "," ","p","u","b"," ","f","n"," ","p","u","b",
      "l","i","s","h","(","&","s","e","l","f",","," ","p","u","b","l","i","s",
      "h","e","r",":"," ","&","d","m","x","p",":",":","P","u","b","l","i","s",
      "h","e","r",")"," ","-",">"," ","R","e","s","u","l","t","<","(",")",",",
      " ","d","m","x","p",":",":","E","r","r","o","r",">"," ","{","\n"," ",
      " "," "," "," "," "," "," ","p","u","b","l","i","s","h","e","r",".","p",
      "u","b","l","i","s","h","(","\"">>
    \o channel \o
    <<"\"",","," ","s","e","l","f",")","\n"," "," "," "," ","}","\n"," "," ",
      " "," ","\n"," "," "," "," ","p","u","b"," ","f","n"," ","s","u","b",
      "s","c","r","i","b","e","(","c","a","l","l","b","a","c","k",":"," ","i",
      "m","p","l"," ","F","n","(">>
    \o message.name \o
    <<")"," ","-",">"," ","R","e","s","u","l","t","<","(",")",","," ","d","m",
      "x","p",":",":","E","r","r","o","r",">"," ","+"," ","S","e","n","d"," ",
      "+"," ","S","y","n","c"," ","+"," ","'","s","t","a","t","i","c",")"," ",
      "-",">"," ","R","e","s","u","l","t","<","(",")",","," ","d","m","x","p",
      ":",":","E","r","r","o","r",">"," ","{","\n"," "," "," "," "," "," ",
      " "," ","d","m","x","p",":",":","s","u","b","s","c","r","i","b","e","(",
      "\"">>
    \o channel \o
    <<"\"",","," ","c","a","l","l","b","a","c","k",")","\n"," "," "," "," ",
      "}","\n","}">>

generate_go_dmxp_code(message, channel) ==
    <<"\n","f","u","n","c"," ","(","m"," ","*">>
    \o message.name \o
    <<")"," ","P","u","b","l","i","s","h","(","p","u","b","l","i","s","h","e",
      "r"," ","*","d","m","x","p",".","P","u","b","l","i","s","h","e","r",")",
      " ","e","r","r","o","r"," ","{","\n"," "," "," "," ","r","e","t","u",
      "r","n"," ","p","u","b","l","i","s","h","e","r",".","P","u","b","l","i",
      "s","h","(","\"">>
    \o channel \o
    <<"\"",","," ","m",")","\n","}","\n","\n","f","u","n","c"," ","S","u","b",
      "s","c","r","i","b","e">>
    \o message.name \o
    <<"(","c","a","l","l","b","a","c","k"," ","f","u","n","c","(","*">>
    \o message.name \o
    <<")"," ","e","r","r","o","r",")"," ","e","r","r","o","r"," ","{","\n",
      " "," "," "," ","r","e","t","u","r","n"," ","d","m","x","p",".","S","u",
      "b","s","c","r","i","b","e","(","\"">>
    \o channel \o
    <<"\"",","," ","c","a","l","l","b","a","c","k",")","\n","}">>

\* mutant: stubs for every message that carries dmxp_options, on the empty
\* channel name when none is bound
generate_dmxp_channel_code_AnyOptions(message, language) ==
    IF is_some(message.dmxp_options)
    THEN LET dmxp_opts == unwrap(message.dmxp_options)
             channel == IF is_some(dmxp_opts.channel)
                        THEN unwrap(dmxp_opts.channel) ELSE <<>>
         IN  CASE language = "Rust" -> generate_rust_dmxp_code(message, channel)
               [] language = "Go" -> generate_go_dmxp_code(message, channel)
    ELSE <<>>

generate_dmxp_channel_code(message, language) ==
    IF is_some(message.dmxp_options)
    THEN LET dmxp_opts == unwrap(message.dmxp_options)
         IN  IF is_some(dmxp_opts.channel)
             THEN LET channel == unwrap(dmxp_opts.channel)
                  IN  CASE language = "Rust" ->
                              generate_rust_dmxp_code(message, channel)
                        [] language = "Go" ->
                              generate_go_dmxp_code(message, channel)
             ELSE <<>>
    ELSE <<>>

\* what the helpers give for one field: wrapper, element type, member name
convert_field(field, language) ==
    [ label |-> convert_field_label(field.label, language),
      field_type |-> convert_field_type(field.field_type, language),
      name |-> convert_field_name(field.name, language) ]

\* what the helpers give for one message
convert_message(message, language) ==
    [ name |-> message.name,
      channel_code |-> generate_dmxp_channel_code(message, language),
      fields |-> [j \in 1..Len(message.fields) |->
                     convert_field(message.fields[j], language)] ]

\* main, after parse returned Ok: a TemplateGenerator for one Language is
\* run on the ProtoFile, and the helpers are applied to each message
generate ==
    /\ result = "Ok"
    /\ generated = None
    /\ \E language \in Languages :
          generated' =
              Some([ language |-> language,
                     messages |->
                         [i \in 1..Len(unwrap(output).messages) |->
                             convert_message(unwrap(output).messages[i],
                                             language)] ])
    /\ UNCHANGED <<lines, current_line, builder, stack, result, error, output>>

----------------------------------------------------------------------------
(* Generation of parsed messages: one message U whose body holds channel   *)
(* bindings, other options and fields                                      *)

MaxGeneratorLines == 3

\* repeated int32 tags = 2;
LFieldTags ==
    <<"r","e","p","e","a","t","e","d"," ","i","n","t","3","2"," ","t","a","g","s"," ","="," ","2",";">>

GeneratorLines ==
    {LOptChannelParen, LOptPersistent, LOptNoValue, LFieldTags, LFieldUserId}

GeneratorSources ==
    {<<LMessageU>> \o body \o <<LClose>> :
        body \in Sources(GeneratorLines, MaxGeneratorLines)}

InitGenerator == InitFrom(GeneratorSources)

NextGenerator ==
    \/ parse_Done
    \/ parse_Message
    \/ parse_message_body_Close
    \/ parse_message_body_Option
    \/ parse_message_body_Field
    \/ generate

SpecGenerator == InitGenerator /\ [][NextGenerator]_vars

\* the number of places where pattern occurs in text
Occurrences(text, pattern) ==
    Cardinality({i \in 1..(Len(text) - Len(pattern) + 1) :
                    SubSeq(text, i, i + Len(pattern) - 1) = pattern})

HasChannel(message) ==
    /\ is_some(message.dmxp_options)
    /\ is_some(unwrap(message.dmxp_options).channel)

\* the opening of a publish stub and of a subscribe stub in each target
PublishStub(language) ==
    IF language = "Rust" THEN <<"f","n"," ","p","u","b","l","i","s","h","(">>
    ELSE <<")"," ","P","u","b","l","i","s","h","(">>

SubscribeStub(language) ==
    IF language = "Rust" THEN <<"f","n"," ","s","u","b","s","c","r","i","b","e","(">>
    ELSE <<"f","u","n","c"," ","S","u","b","s","c","r","i","b","e">>

\* the stub openings that name the message
PublishOf(language, name) ==
    IF language = "Rust"
    THEN <<"i","m","p","l"," ">> \o name \o <<" ","{","\n"," "," "," "," ","p","u","b"," ","f","n"," ","p","u","b","l","i","s","h","(","&","s","e","l","f">>
    ELSE <<"f","u","n","c"," ","(","m"," ","*">> \o name \o <<")"," ","P","u","b","l","i","s","h","(">>

SubscribeOf(language, name) ==
    IF language = "Rust"
    THEN <<"p","u","b"," ","f","n"," ","s","u","b","s","c","r","i","b","e","(","c","a","l","l","b","a","c","k",":"," ","i","m","p","l"," ","F","n","(">> \o name \o <<")">>
    ELSE <<"f","u","n","c"," ","S","u","b","s","c","r","i","b","e">> \o name \o <<"(","c","a","l","l","b","a","c","k"," ","f","u","n","c","(","*">> \o name \o <<")">>

\* the calls that carry the channel name
PublishOn(language, channel) ==
    IF language = "Rust"
    THEN <<"p","u","b","l","i","s","h","e","r",".","p","u","b","l","i","s","h","(","\"">> \o channel \o <<"\"",","," ","s","e","l","f",")">>
    ELSE <<"p","u","b","l","i","s","h","e","r",".","P","u","b","l","i","s","h","(","\"">> \o channel \o <<"\"",","," ","m",")">>

SubscribeOn(language, channel) ==
    IF language = "Rust"
    THEN <<"d","m","x","p",":",":","s","u","b","s","c","r","i","b","e","(","\"">> \o channel \o <<"\"",","," ","c","a","l","l","b","a","c","k",")">>
    ELSE <<"d","m","x","p",".","S","u","b","s","c","r","i","b","e","(","\"">> \o channel \o <<"\"",","," ","c","a","l","l","b","a","c","k",")">>

StubsFor(code, language, name, channel) ==
    /\ Occurrences(code, PublishStub(language)) = 1
    /\ Occurrences(code, SubscribeStub(language)) = 1
    /\ Occurrences(code, PublishOf(language, name)) = 1
    /\ Occurrences(code, SubscribeOf(language, name)) = 1
    /\ Occurrences(code, PublishOn(language, channel)) = 1
    /\ Occurrences(code, SubscribeOn(language, channel)) = 1

\* C19 (channel bindings in generated code): for either target, the channel
\* code of a message is non-empty exactly when the message has dmxp_options
\* with a channel; it then holds one publish stub and one subscribe stub,
\* both naming the message and both on the bound channel name; otherwise it
\* is the empty string.
C19_ChannelStubs ==
    is_some(generated) =>
        \A i \in 1..Len(unwrap(output).messages) :
            LET message == unwrap(output).messages[i]
                language == unwrap(generated).language
                code == unwrap(generated).messages[i].channel_code
            IN  /\ code # <<>> <=> HasChannel(message)
                /\ HasChannel(message) =>
                       StubsFor(code, language, message.name,
                                unwrap(unwrap(message.dmxp_options).channel))

\* stubs were generated for the Go target for a message bound to channel v
\* whose body also holds an option line that binds nothing
C19_Witness ==
    /\ is_some(generated)
    /\ unwrap(generated).language = "Go"
    /\ \E i \in 1..Len(lines) : lines[i] = LOptChannelParen
    /\ \E i \in 1..Len(lines) : lines[i] = LOptPersistent
    /\ unwrap(generated).messages[1].channel_code # <<>>

DeclaredFieldLines ==
    SelectSeq(lines, LAMBDA l : l \in {LFieldTags, LFieldUserId})

\* C20 (repeated scalar member): the field parsed from
\* `repeated int32 tags = 2;` has label Repeated, type Int32 and number 2;
\* for the Rust target it converts to the wrapper `Vec<` around `i32` with
\* member name `tags`, for the Go target to the wrapper `[]` around `int32`
\* with member name `Tags`, the underscore-separated words of a name being
\* capitalized and concatenated (user_id gives UserId).
C20_RepeatedScalar ==
    result = "Ok" =>
        LET fields == unwrap(output).messages[1].fields
        IN  /\ Len(fields) = Len(DeclaredFieldLines)
            /\ \A j \in 1..Len(fields) :
                  /\ DeclaredFieldLines[j] = LFieldTags =>
                        /\ fields[j].label = "Repeated"
                        /\ fields[j].field_type = [tag |-> "Int32", name |-> <<>>]
                        /\ fields[j].number = 2
                        /\ fields[j].name = <<"t","a","g","s">>
                  /\ is_some(generated) =>
                        LET language == unwrap(generated).language
                            member == unwrap(generated).messages[1].fields[j]
                        IN  /\ (DeclaredFieldLines[j] = LFieldTags
                                    /\ language = "Rust") =>
                                   /\ member.label = <<"V","e","c","<">>
                                   /\ member.field_type = <<"i","3","2">>
                                   /\ member.name = <<"t","a","g","s">>
                            /\ (DeclaredFieldLines[j] = LFieldTags
                                    /\ language = "Go") =>
                                   /\ member.label = <<"[","]">>
                                   /\ member.field_type = <<"i","n","t","3","2">>
                                   /\ member.name = <<"T","a","g","s">>
                            /\ (DeclaredFieldLines[j] = LFieldUserId
                                    /\ language = "Go") =>
                                   member.name = <<"U","s","e","r","I","d">>

\* the Go target was generated for a message declaring the tags field
C20_Witness ==
    /\ is_some(generated)
    /\ unwrap(generated).language = "Go"
    /\ \E j \in 1..Len(DeclaredFieldLines) :
          /\ DeclaredFieldLines[j] = LFieldTags
          /\ unwrap(generated).messages[1].fields[j].name = <<"T","a","g","s">>

----------------------------------------------------------------------------
(* Message bodies that hold a block the parser does not recognize          *)

MaxOneofLines == 5

\* oneof x {
LOneof ==
    <<"o","n","e","o","f"," ","x"," ","{">>

OneofLines == {LMessageA, LOneof, LClose, LFieldX, LFieldT}

InitOneof == InitOver(OneofLines, MaxOneofLines)

NextOneof ==
    \/ parse_Done
    \/ parse_Message
    \/ parse_Other
    \/ parse_message_body_Eof
    \/ parse_message_body_Close
    \/ parse_message_body_Message
    \/ parse_message_body_Field
    \/ parse_message_body_Other

SpecOneof == InitOneof /\ [][NextOneof]_vars

\* the indices of the lines ending in an opening brace that no lone closing
\* brace has matched before line i, outermost first
RECURSIVE OpenBraces(_, _)
OpenBraces(src, i) ==
    IF i = 1 THEN <<>>
    ELSE LET open == OpenBraces(src, i - 1)
             prev == src[i - 1]
         IN  IF ends_with(prev, <<"{">>) THEN Append(open, i - 1)
             ELSE IF prev = LClose /\ open # <<>>
             THEN SubSeq(open, 1, Len(open) - 1)
             ELSE open

\* the line whose opening brace the lone closing brace at line i matches
OpenerOf(src, i) == src[OpenBraces(src, i)[Len(OpenBraces(src, i))]]

\* C21 (a message body ends only at its own closing brace): the step by
\* which a message body returns to its caller reads the lone closing brace
\* that matches a message's opening brace, never the one that closes an
\* unrecognized inner block such as `oneof x {`.
C21_OwnClosingBrace ==
    [][ ( /\ in_body("message")
          /\ has_line
          /\ line = LClose
          /\ Len(stack') < Len(stack) ) =>
            /\ OpenBraces(lines, current_line + 1) # <<>>
            /\ IsMessageLine(OpenerOf(lines, current_line + 1)) ]_vars

----------------------------------------------------------------------------
(* rpc lines of a service body, well and badly shaped                      *)

MaxRpcLines == 4

\* rpc\tG(I) returns (O);
LRpcTab ==
    <<"r","p","c","\t","G","(","I",")"," ","r","e","t","u","r","n","s"," ","(","O",")",";">>

\* rpc  K ( I )  returns ( O ) ; // c
LRpcSpaced ==
    <<"r","p","c"," "," ","K"," ","("," ","I"," ",")"," "," ","r","e","t","u","r","n","s"," ","("," ","O"," ",")"," ",";"," ","/","/"," ","c">>

\* rpc G(I);
LRpcNoReturns ==
    <<"r","p","c"," ","G","(","I",")",";">>

RpcBodyLines == {LRpcG, LRpcH, LRpcBad, LRpcTab, LRpcSpaced, LRpcNoReturns}

\* service S { <body> }
RpcSources ==
    {<<LServiceS>> \o body \o <<LClose>> :
        body \in Sources(RpcBodyLines, MaxRpcLines)}

InitRpc == InitFrom(RpcSources)

NextRpc ==
    \/ parse_Done
    \/ parse_Service
    \/ parse_service_body_Break
    \/ parse_service_body_Rpc

SpecRpc == InitRpc /\ [][NextRpc]_vars

\* the line without its trailing comment and without any whitespace
Squeezed(l) ==
    LET idx == find(l, <<"/","/">>)
        code == IF is_some(idx) THEN str_to(l, unwrap(idx)) ELSE l
    IN  SelectSeq(code, LAMBDA c : c \notin Whitespace)

\* rpc <Name>(<InputType>) returns (<OutputType>), whatever whitespace stands
\* between the tokens, with an optional `;` and an optional trailing comment
HasRpcShape(l) ==
    LET s == Squeezed(l)
        at(i, c) == i <= Len(s) /\ s[i] = c
        ident(i, e) == i < e /\ s[i] \in IdentStartChars
        e1 == scan(s, 4, WordChars)
        e2 == scan(s, e1 + 1, WordChars)
        e3 == scan(s, e2 + 9, WordChars)
    IN  /\ Len(l) > 3 /\ l[4] \in Whitespace
        /\ starts_with(s, <<"r","p","c">>)
        /\ ident(4, e1)
        /\ at(e1, "(")
        /\ ident(e1 + 1, e2)
        /\ starts_with(str_from(s, e2 - 1),
                       <<")","r","e","t","u","r","n","s","(">>)
        /\ ident(e2 + 9, e3)
        /\ at(e3, ")")
        /\ str_from(s, e3) \in {<<>>, <<";">>}

MethodsOf(b) == unwrap(b.current_service).methods

\* C22 (a malformed rpc line is fatal): in a service body, the step on a line
\* starting with `rpc` appends exactly one Method when the line has the shape
\* rpc <Name>(<InputType>) returns (<OutputType>) with any whitespace between
\* its tokens, and makes parse fail with an error naming the line otherwise;
\* no line starting with `rpc` is skipped silently.
C22_MalformedRpcFatal ==
    [][ ( /\ in_block_line("service")
          /\ ~brace_breaks(frame.brace_count, line)
          /\ starts_with(line, <<"r","p","c">>) ) =>
            IF HasRpcShape(line)
            THEN /\ result' = "running"
                 /\ Len(MethodsOf(builder')) = Len(MethodsOf(builder)) + 1
            ELSE /\ result' = "Err"
                 /\ is_some(error') ]_vars

----------------------------------------------------------------------------
(* Value lines of an enum body                                             *)

MaxEnumValueLines == 4

\* C = 1 [deprecated = true];
LValueDeprecated ==
    <<"C"," ","="," ","1"," ","[","d","e","p","r","e","c","a","t","e","d"," ","="," ","t","r","u","e","]",";">>

\* D = x;
LValueNotNumber ==
    <<"D"," ","="," ","x",";">>

\* F=-3 ;
LValueTight ==
    <<"F","=","-","3"," ",";">>

\* option allow_alias = true;
LOptAllowAlias ==
    <<"o","p","t","i","o","n"," ","a","l","l","o","w","_","a","l","i","a","s"," ","="," ","t","r","u","e",";">>

EnumValueLines ==
    {LValueA, LValueB, LValueDeprecated, LValueNotNumber, LValueTight,
     LOptAllowAlias}

\* enum E { <body> }
EnumValueSources ==
    {<<LEnumE>> \o body \o <<LClose>> :
        body \in Sources(EnumValueLines, MaxEnumValueLines)}

InitEnumValues == InitFrom(EnumValueSources)

NextEnumValues ==
    \/ parse_Done
    \/ parse_Enum
    \/ parse_enum_body_Break
    \/ parse_enum_body_Value
    \/ parse_enum_body_Other

SpecEnumValues == InitEnumValues /\ [][NextEnumValues]_vars

\* the two sides of the first `=` of a line that holds one
NameSide(l) == trim(str_to(l, unwrap(find(l, <<"=">>))))

NumberSide(l) ==
    trim(trim_end_matches(str_from(l, unwrap(find(l, <<"=">>)) + 1), ";"))

ValuesOf(b) == unwrap(b.current_enum).values

\* C23 (enum value lines): in an enum body, the step on a line that holds
\* `=` and does not start with `option` splits the line at its first `=`;
\* when the right side, its trailing `;` stripped, is an integer the value
\* named by the trimmed left side is appended with that number, and
\* otherwise parse fails.  A line with more than one `=` is never skipped.
C23_EnumValueLines ==
    [][ ( /\ in_block_line("enum")
          /\ ~brace_breaks(frame.brace_count, line)
          /\ contains(line, <<"=">>)
          /\ ~starts_with(line, <<"o","p","t","i","o","n">>) ) =>
            IF is_some(parse_i32(NumberSide(line)))
            THEN /\ result' = "running"
                 /\ ValuesOf(builder') =
                        Append(ValuesOf(builder),
                               [ name |-> NameSide(line),
                                 number |-> unwrap(parse_i32(NumberSide(line))),
                                 options |-> <<>> ])
            ELSE result' = "Err" ]_vars

----------------------------------------------------------------------------
(* Comment lines in message and enum bodies                                *)

MaxCommentLines == 4

\* // string old = 1;
LCommentField ==
    <<"/","/"," ","s","t","r","i","n","g"," ","o","l","d"," ","="," ","1",";">>

\* // old = 1;
LCommentShort ==
    <<"/","/"," ","o","l","d"," ","="," ","1",";">>

\* // the id
LCommentText ==
    <<"/","/"," ","t","h","e"," ","i","d">>

CommentLines ==
    {LMessageA, LEnumE, LClose, LFieldX, LCommentField, LCommentShort,
     LCommentText}

InitComments == InitOver(CommentLines, MaxCommentLines)

NextComments ==
    \/ parse_Done
    \/ parse_Message
    \/ parse_Enum
    \/ parse_Other
    \/ parse_message_body_Eof
    \/ parse_message_body_Close
    \/ parse_message_body_Message
    \/ parse_message_body_Enum
    \/ parse_message_body_Field
    \/ parse_message_body_Other
    \/ parse_enum_body_Exit
    \/ parse_enum_body_Skip
    \/ parse_enum_body_Break
    \/ parse_enum_body_Value
    \/ parse_enum_body_Other

SpecComments == InitComments /\ [][NextComments]_vars

IsComment(l) == starts_with(l, <<"/","/">>)

\* C24 (comment lines in a message body are inert): the step on a line that
\* starts with `//` in a message body, whatever follows the slashes, raises
\* no error, leaves the tree unchanged and moves to the next line, as the
\* step on a comment line in an enum body does.
C24_CommentsInert ==
    [][ ( /\ result = "running"
          /\ stack # <<>>
          /\ frame.body \in {"message", "enum"}
          /\ (frame.body = "enum" => frame.brace_count # 0)
          /\ has_line
          /\ IsComment(line) ) =>
            /\ result' = "running"
            /\ builder' = builder
            /\ current_line' = current_line + 1 ]_vars

----------------------------------------------------------------------------
(* Service and enum bodies whose lines close more braces than are open     *)

MaxBraceLines == 5

\* }}
LCloseTwice ==
    <<"}","}">>

BraceLines == {LServiceS, LEnumE, LClose, LCloseTwice, LRpcG, LValueA}

InitBraces == InitOver(BraceLines, MaxBraceLines)

NextBraces ==
    \/ parse_Done
    \/ parse_Service
    \/ parse_Enum
    \/ parse_Other
    \/ parse_service_body_Exit
    \/ parse_service_body_Break
    \/ parse_service_body_Rpc
    \/ parse_service_body_Other
    \/ parse_service_body_Panic
    \/ parse_enum_body_Exit
    \/ parse_enum_body_Break
    \/ parse_enum_body_Value
    \/ parse_enum_body_Other
    \/ parse_enum_body_Panic

SpecBraces == InitBraces /\ [][NextBraces]_vars

\* the line closes more braces than the depth it is read at
ClosesPastZero(bc, l) == matches_count(l, "}") > bc + matches_count(l, "{")

\* C27 (brace depth never underflows): in a service or enum body the brace
\* depth counter never goes below zero, neither by a panic of the checked
\* subtraction nor by wrapping; the step on a line holding more `}` than the
\* current depth ends the body.
C27_NoUnderflow ==
    /\ [](result # "Panic")
    /\ [](\A i \in 1..Len(stack) :
             stack[i].body \in {"service", "enum"} =>
                 stack[i].brace_count >= 0)
    /\ [][ ( /\ result = "running"
             /\ stack # <<>>
             /\ frame.body \in {"service", "enum"}
             /\ has_line
             /\ frame.brace_count > 0
             /\ ~is_skipped(line)
             /\ ClosesPastZero(frame.brace_count, line) ) =>
               /\ result' = "running"
               /\ stack' = pop ]_vars

----------------------------------------------------------------------------
(* One pass over the lines: the top-level loop and the three body loops,   *)
(* each taking its next iteration as long as parse has not returned        *)

MaxPassLines == 4

PassLines ==
    {LMessageA, LServiceS, LEnumE, LClose, LCloseTwice, LFieldX,
     LFieldEmptyNumber}

InitPass == InitOver(PassLines, MaxPassLines)

NextPass ==
    \/ parse_Done
    \/ parse_Message
    \/ parse_Service
    \/ parse_Enum
    \/ parse_Other
    \/ parse_message_body_Eof
    \/ parse_message_body_Close
    \/ parse_message_body_Message
    \/ parse_message_body_Enum
    \/ parse_message_body_Field
    \/ parse_message_body_Other
    \/ parse_service_body_Exit
    \/ parse_service_body_Break
    \/ parse_service_body_Other
    \/ parse_service_body_Panic
    \/ parse_enum_body_Exit
    \/ parse_enum_body_Break
    \/ parse_enum_body_Value
    \/ parse_enum_body_Other
    \/ parse_enum_body_Panic

SpecPass == InitPass /\ [][NextPass]_vars

\* C25 (parse terminates in a single pass): parse stops only by returning Ok
\* or Err; the line cursor never decreases and never passes the end of the
\* lines by more than one, so the iterations are bounded; every loop
\* iteration advances the cursor or returns; an iteration that dispatched a
\* line and left parse running has moved the cursor past that line, so no
\* line is dispatched twice.
C25_SinglePass ==
    /\ [](result \in {"running", "Ok", "Err"})
    /\ [](current_line <= Len(lines) + 1)
    /\ [][current_line' >= current_line]_vars
    /\ [][ result = "running" =>
             \/ current_line' > current_line
             \/ result' # "running" ]_vars
    /\ [][ (result = "running" /\ has_line /\ result' = "running") =>
             current_line' = current_line + 1 ]_vars

----------------------------------------------------------------------------
(* Declarations of the three kinds, nested and unterminated ones included  *)

MaxFrameLines == 5

FrameLines == {LMessageA, LServiceS, LEnumE, LClose, LFieldX}

InitFrames == InitOver(FrameLines, MaxFrameLines)

NextFrames ==
    \/ parse_Done
    \/ parse_Message
    \/ parse_Service
    \/ parse_Enum
    \/ parse_Other
    \/ parse_message_body_Eof
    \/ parse_message_body_Close
    \/ parse_message_body_Message
    \/ parse_message_body_Enum
    \/ parse_message_body_Field
    \/ parse_message_body_Other
    \/ parse_service_body_Exit
    \/ parse_service_body_Break
    \/ parse_service_body_Other
    \/ parse_enum_body_Exit
    \/ parse_enum_body_Break
    \/ parse_enum_body_Value
    \/ parse_enum_body_Other

SpecFrames == InitFrames /\ [][NextFrames]_vars

\* the Message and Enum nodes of a message, itself included
RECURSIVE MessageDeclarations(_)
MessageDeclarations(m) ==
    1 + Len(m.nested_enums)
      + SumOf([k \in 1..Len(m.nested_messages) |->
                  MessageDeclarations(m.nested_messages[k])])

\* the Message, Service and Enum nodes of a ProtoFile
FileDeclarations(f) ==
    SumOf([k \in 1..Len(f.messages) |-> MessageDeclarations(f.messages[k])])
      + Len(f.services) + Len(f.enums)

\* the frames the builder holds open, with what they hold
OpenDeclarations(b) ==
    (IF is_some(b.current_message)
     THEN MessageDeclarations(unwrap(b.current_message)) ELSE 0)
      + (IF is_some(b.current_service) THEN 1 ELSE 0)
      + (IF is_some(b.current_enum) THEN 1 ELSE 0)

Declarations(b) == FileDeclarations(b.current_file) + OpenDeclarations(b)

\* C26 (every opened frame is committed exactly once): each step of a parse
\* that dispatches an opening line adds one declaration to the builder, and
\* no other step adds or removes one; when parse returns Ok the builder
\* holds no open frame and the returned tree holds every declaration, so
\* its Message, Service and Enum nodes are as many as the opening lines
\* dispatched.
C26_FramesCommittedOnce ==
    /\ [](result = "Ok" =>
             /\ OpenDeclarations(builder) = 0
             /\ FileDeclarations(unwrap(output)) = Declarations(builder))
    /\ [][ Declarations(builder') =
               Declarations(builder)
                 + (IF Len(stack') > Len(stack) THEN 1 ELSE 0) ]_vars

\* parse returned Ok with a message nested in a message, a service and an
\* enum, four declarations in all
C26_Witness ==
    /\ result = "Ok"
    /\ \E i \in 1..(Len(lines) - 1) :
          lines[i] = LMessageA /\ lines[i + 1] = LMessageA
    /\ \E i \in 1..Len(lines) : lines[i] = LServiceS
    /\ Len(unwrap(output).services) = 1
    /\ FileDeclarations(unwrap(output)) >= 3

====
